---- MODULE Spec2Model ----
(***************************************************************************)
(* Model of answer-comments (cmd/answer-comments/main.go and the internal  *)
(* llm, database and youtube packages).                                    *)
(*                                                                         *)
(* Text is modelled as a sequence of tokens: Fence is the code fence of    *)
(* three backquotes, "json" the language tag, " " and "\n" are white       *)
(* space, every other token is a run of non-white characters.  The empty   *)
(* string is <<>>.                                                         *)
(***************************************************************************)
EXTENDS Integers, Sequences, FiniteSets, TLC

\* ------------------------------------------------------------------ bounds
\* number of comment threads of the channel
NumThreads == 2
\* number of items the comment source returns in one page (MaxResults(25)
\* in the program)
PageLen == 1
\* largest number of caption tracks a video lists
MaxTracks == 2
\* the longest subtitle text that is cleaned, in characters
MaxSrtLen == 5

\* ------------------------------------------------------- program constants
\* limit of the precedent lookup in main
PrecedentLimit == 5
\* limit of the author history lookup in main
HistoryLimit == 10

\* --------------------------------------------------------------- text
\* the three backquotes of a code fence (a backquote cannot be written in a
\* string of this language)
Fence == "'''"
LangTag == "json"
WhiteSpace == {" ", "\n"}

\* strings.TrimPrefix
TrimPrefix(s, p) ==
    IF Len(s) >= Len(p) /\ SubSeq(s, 1, Len(p)) = p
    THEN SubSeq(s, Len(p) + 1, Len(s))
    ELSE s

\* strings.TrimSuffix
TrimSuffix(s, p) ==
    IF Len(s) >= Len(p) /\ SubSeq(s, Len(s) - Len(p) + 1, Len(s)) = p
    THEN SubSeq(s, 1, Len(s) - Len(p))
    ELSE s

RECURSIVE TrimLeft(_)
TrimLeft(s) ==
    IF s # <<>> /\ Head(s) \in WhiteSpace THEN TrimLeft(Tail(s)) ELSE s

RECURSIVE TrimRight(_)
TrimRight(s) ==
    IF s # <<>> /\ s[Len(s)] \in WhiteSpace
    THEN TrimRight(SubSeq(s, 1, Len(s) - 1))
    ELSE s

\* strings.TrimSpace
TrimSpace(s) == TrimRight(TrimLeft(s))

\* ------------------------------------------------------------- models
\* models.SentimentAnalysis
SentimentAnalysis(sentimento, nota, tema) ==
    [Sentimento |-> sentimento, Nota |-> nota, Tema |-> tema]

\* the zero value models.SentimentAnalysis{}
ZeroSentimentAnalysis == SentimentAnalysis("", 0, "")

\* the enumerations of the analysis prompt
Sentimentos == {"positivo", "neutro", "negativo"}
Temas == {"Teologia (Dizimo)", "Teologia (Graca)", "Teologia (Sabado)",
          "Escatologia", "Estudo Biblico (Geral)", "Devocional (AB7)",
          "Podcast (Entrevista)", "Saudacao/Agradecimento", "Critica (Tom)",
          "Duvida (Geral)", "Pedido de Oracao", "Outro"}
Notas == 1..5

\* ---------------------------------------------------------------- llm
\* JSON documents the analysis model can answer with; a document is one
\* token of the response text.  A field that is missing from the document
\* decodes to the zero value of its Go type.
JsonDoc ==
    [ j_pos4 |-> SentimentAnalysis("positivo", 4, "Saudacao/Agradecimento"),
      j_pos3 |-> SentimentAnalysis("positivo", 3, "Duvida (Geral)"),
      j_neu4 |-> SentimentAnalysis("neutro", 4, "Duvida (Geral)"),
      j_neg5 |-> SentimentAnalysis("negativo", 5, "Critica (Tom)"),
      j_pos2 |-> SentimentAnalysis("positivo", 2, "Duvida (Geral)"),
      j_miss |-> SentimentAnalysis("misto", 0, "Fofoca") ]

\* json.Unmarshal into a models.SentimentAnalysis: the text must be exactly
\* one JSON document
JsonUnmarshal(text) ==
    IF Len(text) = 1 /\ text[1] \in DOMAIN JsonDoc
    THEN [err |-> FALSE, s |-> JsonDoc[text[1]]]
    ELSE [err |-> TRUE, s |-> ZeroSentimentAnalysis]

\* llm.AnalyzeComment; resp is the answer of GenerateContent:
\* [err |-> transport failure or timeout, text |-> the response text]
AnalyzeComment(resp) ==
    IF resp.err
    THEN [err |-> "transport", s |-> ZeroSentimentAnalysis]
    ELSE LET raw == resp.text
             c1 == TrimPrefix(raw, <<Fence, LangTag>>)
             c2 == TrimPrefix(c1, <<Fence>>)
             c3 == TrimSuffix(c2, <<Fence>>)
             cleaned == TrimSpace(c3)
             d == JsonUnmarshal(cleaned)
         IN  IF d.err
             THEN [err |-> "parse", s |-> ZeroSentimentAnalysis]
             ELSE [err |-> "nil", s |-> d.s]

\* the prompt template llm.SuggestAnswer builds its prompt with
AnswerPrompt(isANegativeComment) ==
    IF isANegativeComment THEN "getNegativeAnswerPrompt"
    ELSE "getPositiveAnswerPrompt"

\* llm.SuggestAnswer (the part after the prompt is built)
SuggestAnswer(resp) ==
    IF resp.err
    THEN [err |-> TRUE, text |-> <<>>]
    ELSE LET c1 == TrimSpace(resp.text)
             c2 == TrimPrefix(c1, <<Fence>>)
             c3 == TrimSuffix(c2, <<Fence>>)
         IN  [err |-> FALSE, text |-> TrimSpace(c3)]

\* ------------------------------------------------------------ database
\* one row of the comments table
Row(id, author, text, sentiment, score, response, theme, userAnswered, createdAt, respondedAt) ==
    [id |-> id, author |-> author, comment_text |-> text,
     sentiment |-> sentiment, score |-> score, response |-> response,
     theme |-> theme, user_answered |-> userAnswered,
     created_at |-> createdAt, responded_at |-> respondedAt]

\* the rows at the positions keep, in rowid order
RECURSIVE RowsAt(_, _)
RowsAt(rows, keep) ==
    IF keep = {} THEN <<>>
    ELSE LET i == CHOOSE k \in keep : \A j \in keep : k <= j
         IN  <<rows[i]>> \o RowsAt(rows, keep \ {i})

\* the position of the row that ORDER BY <column> DESC puts first (the
\* earliest rowid among equal keys)
FirstDesc(rows, column) ==
    CHOOSE i \in 1..Len(rows) :
        /\ \A j \in 1..Len(rows) : rows[j][column] <= rows[i][column]
        /\ \A j \in 1..(i - 1) : rows[j][column] < rows[i][column]

RemoveAt(rows, i) == SubSeq(rows, 1, i - 1) \o SubSeq(rows, i + 1, Len(rows))

\* ORDER BY <column> DESC
RECURSIVE OrderByDesc(_, _)
OrderByDesc(rows, column) ==
    IF rows = <<>> THEN <<>>
    ELSE LET i == FirstDesc(rows, column)
         IN  <<rows[i]>> \o OrderByDesc(RemoveAt(rows, i), column)

\* LIMIT n
Limit(rows, n) == SubSeq(rows, 1, IF Len(rows) < n THEN Len(rows) ELSE n)

\* the value of a column that was never written
Null == "NULL"

\* the columns of the comments table that the model keeps (video_id is left
\* out), as CREATE TABLE of InitDB names them
NewColumns ==
    {"id", "author", "comment_text", "sentiment", "score", "response",
     "theme", "user_answered", "created_at", "responded_at"}

\* the columns of a table created by the InitDB of internal/database/db.go
OldColumns == NewColumns \ {"theme"}

\* one row written by the SaveComment of internal/database/db.go
OldRow(id, author, text, sentiment, score, response, userAnswered, createdAt, respondedAt) ==
    [id |-> id, author |-> author, comment_text |-> text,
     sentiment |-> sentiment, score |-> score, response |-> response,
     user_answered |-> userAnswered,
     created_at |-> createdAt, responded_at |-> respondedAt]

\* the statements of InitDB, any of which may fail
InitFailures == {"none", "open", "create", "select", "alter"}

\* an InitDB that drops a table without the theme column and creates it
\* again
InitDBRecreating(cols, rows, failAt) ==
    IF failAt \in {"open", "create"}
    THEN [err |-> TRUE, columns |-> cols, rows |-> rows]
    ELSE IF "theme" \in cols
    THEN [err |-> failAt = "select", columns |-> cols, rows |-> rows]
    ELSE [err |-> FALSE, columns |-> NewColumns, rows |-> <<>>]

\* database.InitDB on a table with the columns cols (the empty set when
\* there is no table) and the rows in rows: CREATE TABLE IF NOT EXISTS, the
\* probe SELECT theme, and ALTER TABLE ADD COLUMN theme when the probe
\* finds no such column; failAt names the statement that fails
InitDB(cols, rows, failAt) ==
    LET created == IF cols = {} THEN NewColumns ELSE cols
    IN  IF failAt \in {"open", "create"}
        THEN [err |-> TRUE, columns |-> cols, rows |-> rows]
        ELSE IF failAt = "select"
        THEN [err |-> TRUE, columns |-> created, rows |-> rows]
        ELSE IF "theme" \in created
        THEN [err |-> FALSE, columns |-> created, rows |-> rows]
        ELSE IF failAt = "alter"
        THEN [err |-> TRUE, columns |-> created, rows |-> rows]
        ELSE [err |-> FALSE,
              columns |-> created \cup {"theme"},
              rows |-> [i \in 1..Len(rows) |-> rows[i] @@ [theme |-> Null]]]

\* a save that replaces the row of an id that is already in the table
SaveCommentReplacing(rows, id, author, text, createdAt, sentiment, score, theme, response, userAnswered, now, ioOk) ==
    LET others == RowsAt(rows, {i \in 1..Len(rows) : rows[i].id # id})
    IN  [err |-> FALSE,
         rows |-> Append(others, Row(id, author, text, sentiment, score,
                                     response, theme, userAnswered,
                                     createdAt, now))]

\* a save that writes the row without the text of the reply
SaveCommentWithoutResponse(rows, id, author, text, createdAt, sentiment, score, theme, response, userAnswered, now, ioOk) ==
    IF ~ioOk \/ \E i \in 1..Len(rows) : rows[i].id = id
    THEN [err |-> TRUE, rows |-> rows]
    ELSE [err |-> FALSE,
          rows |-> Append(rows, Row(id, author, text, sentiment, score,
                                    <<>>, theme, userAnswered,
                                    createdAt, now))]

\* database.SaveComment: the INSERT fails when the id is already a primary
\* key of the table or when the store cannot be written (ioOk = FALSE);
\* now is time.Now()
SaveComment(rows, id, author, text, createdAt, sentiment, score, theme, response, userAnswered, now, ioOk) ==
    IF ~ioOk \/ \E i \in 1..Len(rows) : rows[i].id = id
    THEN [err |-> TRUE, rows |-> rows]
    ELSE [err |-> FALSE,
          rows |-> Append(rows, Row(id, author, text, sentiment, score,
                                    response, theme, userAnswered,
                                    createdAt, now))]

\* the WHERE clause without the test of user_answered
PreviousAnswerWhereAnyFlag(r, theme, sentiment) ==
    /\ r.theme # Null
    /\ r.theme = theme
    /\ r.sentiment = sentiment
    /\ r.response # <<>>

\* the WHERE clause of GetPreviousAnswersByContext
PreviousAnswerWhere(r, theme, sentiment) ==
    /\ r.theme # Null
    /\ r.theme = theme
    /\ r.sentiment = sentiment
    /\ r.response # <<>>
    /\ r.user_answered = TRUE

\* the query of GetPreviousAnswersByContext without its ORDER BY: the rows
\* come in the order of their insertion
PreviousAnswerRowsUnordered(rows, theme, sentiment, limit) ==
    LET keep == {i \in 1..Len(rows) :
                    PreviousAnswerWhere(rows[i], theme, sentiment)}
    IN  Limit(RowsAt(rows, keep), limit)

\* the rows the query of GetPreviousAnswersByContext selects
PreviousAnswerRows(rows, theme, sentiment, limit) ==
    LET keep == {i \in 1..Len(rows) :
                    PreviousAnswerWhere(rows[i], theme, sentiment)}
    IN  Limit(OrderByDesc(RowsAt(rows, keep), "responded_at"), limit)

\* the entry "Pergunta: <comment>\nResposta: <response>\n"
ContextEntry(r) ==
    <<"Pergunta:", " ">> \o r.comment_text \o <<"\n", "Resposta:", " ">>
        \o r.response \o <<"\n">>

\* database.GetPreviousAnswersByContext
GetPreviousAnswersByContext(rows, theme, sentiment, limit, ioOk) ==
    IF ~ioOk THEN [err |-> TRUE, results |-> <<>>]
    ELSE LET sel == PreviousAnswerRows(rows, theme, sentiment, limit)
         IN  [err |-> FALSE,
              results |-> [i \in 1..Len(sel) |-> ContextEntry(sel[i])]]

\* the query of GetLastComments without its ORDER BY: the rows come in the
\* order of their insertion
LastCommentRowsUnordered(rows, author, limit) ==
    LET keep == {i \in 1..Len(rows) : rows[i].author = author}
    IN  Limit(RowsAt(rows, keep), limit)

\* the query of GetLastComments with the test of a non-empty response that
\* the query of GetPreviousAnswersByContext has
LastCommentRowsAnswered(rows, author, limit) ==
    LET keep == {i \in 1..Len(rows) : rows[i].author = author /\ rows[i].response # <<>>}
    IN  Limit(OrderByDesc(RowsAt(rows, keep), "created_at"), limit)

\* the rows the query of GetLastComments selects
LastCommentRows(rows, author, limit) ==
    LET keep == {i \in 1..Len(rows) : rows[i].author = author}
    IN  Limit(OrderByDesc(RowsAt(rows, keep), "created_at"), limit)

\* database.GetLastComments
GetLastComments(rows, author, limit, ioOk) ==
    IF ~ioOk THEN [err |-> TRUE, comments |-> <<>>]
    ELSE LET sel == LastCommentRows(rows, author, limit)
         IN  [err |-> FALSE,
              comments |-> [i \in 1..Len(sel) |->
                              [CommentText |-> sel[i].comment_text,
                               Response |-> sel[i].response,
                               CreatedAt |-> sel[i].created_at]]]

\* database.CloseDB on the handle h: closes it unless it is nil
CloseDB(h) == IF h = "nil" THEN "nil" ELSE "closed"

\* ------------------------------------------------------------- youtube
TrackKinds == {"asr", "standard"}

Languages == {"pt", "pt-BR", "en", "es"}

CaptionTrack == [TrackKind : TrackKinds, Language : Languages]

CaptionLists == UNION {[1..n -> CaptionTrack] : n \in 0..MaxTracks}

\* the priority of a language with en ahead of pt
CaptionPriorityEnglishFirst(lang) ==
    IF lang = "en" THEN 3
    ELSE IF lang = "pt" \/ lang = "pt-BR" THEN 2
    ELSE 1

\* the priority of a track's language: 3 = pt, 2 = en, 1 = other
CaptionPriority(lang) ==
    IF lang = "pt" \/ lang = "pt-BR" THEN 3
    ELSE IF lang = "en" THEN 2
    ELSE 1

\* the loop over the listed tracks from position i on, with the captionId
\* and the captionPriority found so far
RECURSIVE SelectCaption(_, _, _, _)
SelectCaption(tracks, i, id, prio) ==
    IF i > Len(tracks) THEN id
    ELSE IF tracks[i].TrackKind # "asr" THEN SelectCaption(tracks, i + 1, id, prio)
    ELSE IF CaptionPriority(tracks[i].Language) > prio
         THEN SelectCaption(tracks, i + 1, i, CaptionPriority(tracks[i].Language))
         ELSE SelectCaption(tracks, i + 1, id, prio)

\* the text of a transcript that was downloaded and cleaned
TranscriptText == <<"Bom", " ", "dia">>

\* the arrow between the two times of a cue, character by character
CueArrow == <<"-", "-", ">">>

Digits == {"0", "1", "2", "3", "4", "5", "6", "7", "8", "9"}

\* strings.Contains
Contains(s, sub) ==
    \E i \in 1..(Len(s) - Len(sub) + 1) : SubSeq(s, i, i + Len(sub) - 1) = sub

\* strings.Split(s, "\n"): the pieces between the newlines, the empty ones
\* included
RECURSIVE SplitLines(_)
SplitLines(s) ==
    IF \A i \in 1..Len(s) : s[i] # "\n" THEN <<s>>
    ELSE LET n == CHOOSE i \in 1..Len(s) :
                      s[i] = "\n" /\ \A j \in 1..(i - 1) : s[j] # "\n"
         IN  <<SubSeq(s, 1, n - 1)>> \o SplitLines(SubSeq(s, n + 1, Len(s)))

\* strings.Join(lines, " ")
RECURSIVE JoinLines(_)
JoinLines(lines) ==
    IF lines = <<>> THEN <<>>
    ELSE IF Len(lines) = 1 THEN lines[1]
    ELSE lines[1] \o <<" ">> \o JoinLines(Tail(lines))

\* isNumber
IsNumber(s) == (\A i \in 1..Len(s) : s[i] \in Digits) /\ Len(s) > 0

\* a loop body that keeps the lines of digits
SkipLineKeepingNumbers(line) == line = <<>> \/ Contains(line, CueArrow)

\* the test of the loop of cleanTranscript on a trimmed line
SkipLine(line) == line = <<>> \/ IsNumber(line) \/ Contains(line, CueArrow)

KeepLine(line) == ~SkipLine(line)

\* cleanTranscript
CleanTranscript(text) ==
    LET lines == SplitLines(text)
        trimmed == [i \in 1..Len(lines) |-> TrimSpace(lines[i])]
    IN  JoinLines(SelectSeq(trimmed, KeepLine))

\* the tracks a video of the channel may list
VideoTracks ==
    { <<>>,
      <<[TrackKind |-> "standard", Language |-> "pt"]>>,
      <<[TrackKind |-> "asr", Language |-> "pt-BR"]>> }

\* the ways a call of GetVideoTranscription can go: the tracks listed and
\* the outcomes of Captions.List and of the download; a call that is not
\* reached has no outcome of its own (no tracks when the listing fails, no
\* download failure when no track is selected)
VideoCases ==
    {c \in [tracks : VideoTracks, listOk : BOOLEAN, downloadOk : BOOLEAN] :
        /\ c.listOk \/ (c.tracks = <<>> /\ c.downloadOk)
        /\ c.downloadOk \/ (c.listOk /\ SelectCaption(c.tracks, 1, 0, 0) # 0)}

\* the case drawn when GetVideoTranscription is not called
NoVideoCall == [tracks |-> <<>>, listOk |-> TRUE, downloadOk |-> TRUE]

\* what GetVideoTranscription returns for the listed tracks: an error and
\* the empty text when Captions.List fails, when no asr track is listed or
\* when the download fails, and the cleaned text otherwise
TranscriptionResult(tracks, listOk, downloadOk) ==
    IF ~listOk THEN [err |-> "failed", captionId |-> 0, text |-> <<>>]
    ELSE LET id == SelectCaption(tracks, 1, 0, 0)
         IN  IF id = 0 THEN [err |-> "nocaption", captionId |-> id, text |-> <<>>]
             ELSE IF ~downloadOk THEN [err |-> "failed", captionId |-> id, text |-> <<>>]
             ELSE [err |-> "nil", captionId |-> id, text |-> TranscriptText]

\* ----------------------------------------------------------- environment
\* the comment threads of the channel, in the order of the listing
Threads == 1..NumThreads
\* comment.Snippet.AuthorDisplayName
AuthorDisplayName(t) == IF t <= 2 THEN "Ana" ELSE "Bia"
\* comment.Snippet.AuthorChannelId.Value: every thread is started by a
\* channel of its own, so threads 1 and 2 are by two channels that share a
\* display name
AuthorChannelId(t) == t
\* comment.Snippet.TextOriginal
TextOriginal(t) == IF t % 2 = 1 THEN <<"Amem">> ELSE <<"Por", " ", "que?">>
\* comment.Snippet.PublishedAt
PublishedAt(t) == t

\* response.Items of the page at a page token (0 is the empty token)
PageItems(token) ==
    LET left == NumThreads - token * PageLen
        n == IF left < PageLen THEN left ELSE PageLen
    IN  [i \in 1..n |-> token * PageLen + i]

\* response.NextPageToken of the page at a page token
NextPageToken(token) ==
    IF (token + 1) * PageLen < NumThreads THEN token + 1 ELSE 0

\* what the analysis model may answer
AnalysisResponses ==
    {[err |-> TRUE, text |-> <<>>]} \cup
    {[err |-> FALSE, text |-> t] :
        t \in {<<j>> : j \in DOMAIN JsonDoc} \cup
              { <<Fence, LangTag, "\n", "j_pos4", "\n", Fence>>,
                <<Fence, "\n", "j_pos3", "\n", Fence>>,
                <<"Claro!", " ", "j_pos4">>,
                <<>> }}

\* what the generation model may answer
DraftResponses ==
    {[err |-> TRUE, text |-> <<>>]} \cup
    {[err |-> FALSE, text |-> t] :
        t \in { <<>>, <<" ", "\n">>, <<"Amem!", "\n">>,
                <<Fence, "\n", "Amem!", "\n", Fence>> }}

\* what the operator may leave in the text area of the edit screen
EditTexts == { <<>>, <<" ">>, <<" ", "Gloria", "\n">> }

\* ---------------------------------------------------------------- state
VARIABLES captions, captionId, raw, srt, loading, manualMode, autoAnswerMode, transcriptionMode, pc, proc, exitBy, setup, dbHandle, columns, db, replied, pageToken, items, idx, foundUnanswered, nextBatchAsked, sentiment, suggestedAnswer, answer, input, pastAnswers, authorHistory, ev

flagVars == <<manualMode, autoAnswerMode, transcriptionMode>>
captionVars == <<captions, captionId>>
loopVars == <<pageToken, items, idx, foundUnanswered, nextBatchAsked>>
commentVars == <<sentiment, suggestedAnswer, answer, input, pastAnswers, authorHistory>>
vars == <<captions, captionId, raw, srt, loading, manualMode, autoAnswerMode, transcriptionMode, pc, proc, exitBy, setup, dbHandle, columns, db, replied, pageToken, items, idx, foundUnanswered, nextBatchAsked, sentiment, suggestedAnswer, answer, input, pastAnswers, authorHistory, ev>>

\* the loading screen of the comment in hand, before runLoadingScreen is
\* called: lpc is the position of main, gpc the position of the goroutine
\* that runs the screen, screen the screen of the tview application,
\* errChan the buffered channel of the result of Run, onceDone and result
\* the variables of the stop function, closer the variable captured by
\* stopLoading, after the place main goes to when stopLoading has returned
NoLoading ==
    [lpc |-> "start", gpc |-> "none", screen |-> "nil", errChan |-> <<>>,
     onceDone |-> FALSE, result |-> "none", closer |-> "nil",
     after |-> "none", logged |-> FALSE]

\* what has happened for the comment in hand: the calls main has made for
\* it; notice is what the last step wrote for the operator: "log" for a
\* log.Printf entry, "stdout" for a line printed with fmt.Println, "status"
\* for a modal message of displayStatus
NoEv ==
    [id |-> 0, analysis |-> "none", draftCalls |-> 0,
     draft |-> "none", transcript |-> "none", transcriptArg |-> <<>>,
     prompted |-> FALSE, choice |-> "none",
     edited |-> "none", publishCalls |-> 0, publishVia |-> "none",
     publishText |-> <<>>, publishOk |-> FALSE, saveCalls |-> 0,
     saveOk |-> FALSE, ended |-> "none", notice |-> {}]

Init ==
    /\ captions = <<>>
    /\ captionId = 0
    /\ raw = <<>>
    /\ srt = <<>>
    /\ loading = NoLoading
    /\ manualMode \in BOOLEAN
    /\ autoAnswerMode \in BOOLEAN
    /\ transcriptionMode \in BOOLEAN
    /\ pc = "prep"
    /\ proc = "running"
    /\ exitBy = "none"
    /\ nextBatchAsked = FALSE
    /\ setup = [gpc |-> "initdb", initOk |-> FALSE, ready |-> FALSE,
                quit |-> FALSE, setupErr |-> FALSE, result |-> FALSE]
    /\ dbHandle = "nil"
    /\ columns = {}
    /\ db = <<>>
    /\ replied \in [Threads -> BOOLEAN]
    /\ pageToken = 0
    /\ items = <<>>
    /\ idx = 1
    /\ foundUnanswered = FALSE
    /\ sentiment = ZeroSentimentAnalysis
    /\ suggestedAnswer = <<>>
    /\ answer = <<>>
    /\ input = ""
    /\ pastAnswers = <<>>
    /\ authorHistory = <<>>
    /\ ev = NoEv

\* ------------------------------------------------- preparation screen
\* the setup goroutine: performSetup up to and including database.InitDB
SetupInitDB ==
    /\ proc = "running"
    /\ setup.gpc = "initdb"
    /\ \E failAt \in InitFailures :
          LET init == InitDB(columns, db, failAt)
          IN  /\ columns' = init.columns
              /\ db' = init.rows
              /\ dbHandle' = (IF failAt = "open" THEN "nil" ELSE "open")
              /\ setup' = (IF init.err
                           THEN [setup EXCEPT !.gpc = "failed", !.setupErr = TRUE]
                           ELSE [setup EXCEPT !.gpc = "steps", !.initOk = TRUE])
    /\ UNCHANGED <<captionVars, raw, srt, loading, flagVars, pc, proc, exitBy, replied, loopVars, commentVars, ev>>

\* the setup goroutine: the steps of performSetup after InitDB; a failing
\* step runs cleanupOnError
SetupSteps ==
    /\ proc = "running"
    /\ setup.gpc = "steps"
    /\ \/ /\ setup' = [setup EXCEPT !.gpc = "queued", !.result = TRUE]
          /\ UNCHANGED dbHandle
       \/ /\ setup' = [setup EXCEPT !.gpc = "failed", !.setupErr = TRUE]
          /\ dbHandle' = CloseDB(dbHandle)
    /\ UNCHANGED <<captionVars, raw, srt, loading, flagVars, columns, pc, proc, exitBy, db, replied, loopVars, commentVars, ev>>

\* the update the setup goroutine queued, run by the screen while it is up
SetupReady ==
    /\ proc = "running"
    /\ setup.gpc = "queued"
    /\ pc = "prep"
    /\ setup' = [setup EXCEPT !.gpc = "done", !.ready = TRUE]
    /\ UNCHANGED <<captionVars, raw, srt, loading, flagVars, columns, pc, proc, exitBy, dbHandle, db, replied, loopVars, commentVars, ev>>

\* startButton's handler
PressStart ==
    /\ proc = "running"
    /\ pc = "prep"
    /\ setup.ready
    /\ pc' = "prepared"
    /\ UNCHANGED <<captionVars, raw, srt, loading, flagVars, columns, proc, exitBy, setup, dbHandle, db, replied, loopVars, commentVars, ev>>

\* exitButton's handler
PressExit ==
    /\ proc = "running"
    /\ pc = "prep"
    /\ setup' = [setup EXCEPT !.quit = TRUE]
    /\ pc' = "prepared"
    /\ UNCHANGED <<captionVars, raw, srt, loading, flagVars, columns, proc, exitBy, dbHandle, db, replied, loopVars, commentVars, ev>>

\* the screen is stopped by the library's own Ctrl-C handling
PrepInterrupt ==
    /\ proc = "running"
    /\ pc = "prep"
    /\ pc' = "prepared"
    /\ UNCHANGED <<captionVars, raw, srt, loading, flagVars, columns, proc, exitBy, setup, dbHandle, db, replied, loopVars, commentVars, ev>>

\* app.Run fails: runPreparationScreen returns the error and main exits
PrepRunError ==
    /\ proc = "running"
    /\ pc = "prep"
    /\ pc' = "done"
    /\ proc' = "exit1"
    /\ exitBy' = "prepRunError"
    /\ UNCHANGED <<captionVars, raw, srt, loading, flagVars, columns, setup, dbHandle, db, replied, loopVars, commentVars, ev>>

\* the end of runPreparationScreen and main up to the start of the loop
AfterPreparation ==
    /\ proc = "running"
    /\ pc = "prepared"
    /\ IF setup.quit
       THEN /\ pc' = "done" /\ proc' = "returned" /\ exitBy' = "prepQuit"
            /\ UNCHANGED dbHandle
       ELSE IF setup.setupErr
       THEN /\ pc' = "done" /\ proc' = "exit1" /\ exitBy' = "setupError"
            /\ UNCHANGED dbHandle
       ELSE IF ~setup.result
       THEN \* setup is nil: reading setup.youtubeService panics after the
            \* defer of database.CloseDB is registered, and the defer runs
            /\ pc' = "done" /\ proc' = "panic" /\ exitBy' = "nilSetup"
            /\ dbHandle' = CloseDB(dbHandle)
       ELSE /\ pc' = "fetch"
            /\ UNCHANGED <<proc, exitBy, dbHandle>>
    /\ UNCHANGED <<captionVars, raw, srt, loading, flagVars, columns, setup, db, replied, loopVars, commentVars, ev>>

\* ------------------------------------------------------------ main loop
\* shouldSuggestAnswer without the test of the manual flag
ShouldSuggestInManual(manual, s) ==
    s.Sentimento # "negativo" /\ s.Nota >= 3

\* shouldSuggestAnswer without the test of the negative sentiment
ShouldSuggestForNegative(manual, s) ==
    ~manual /\ s.Nota >= 3

\* shouldSuggestAnswer
ShouldSuggestAnswer(manual, s) ==
    ~manual /\ s.Sentimento # "negativo" /\ s.Nota >= 3

\* the isANegativeComment argument main passes to llm.SuggestAnswer
IsANegativeComment(s) == s.Sentimento = "negativo"

\* an automatic approval that also looks at the topic of the comment
AutoApproveExceptGreetings(suggested, s, auto) ==
    suggested # <<>> /\ s.Sentimento = "positivo" /\ s.Nota >= 4 /\ auto
        /\ s.Tema # "Saudacao/Agradecimento"

\* the automatic approval with the score threshold of shouldSuggestAnswer
AutoApproveFromThree(suggested, s, auto) ==
    suggested # <<>> /\ s.Sentimento = "positivo" /\ s.Nota >= 3 /\ auto

\* the condition under which main sets input to "S" without asking
AutoApprove(suggested, s, auto) ==
    suggested # <<>> /\ s.Sentimento = "positivo" /\ s.Nota >= 4 /\ auto

\* a Publicar button shown whenever manual mode is off
AllowPublishWithoutDraft(suggested, manual) == ~manual

\* allowPublish of runResponseDecisionScreen
AllowPublish(suggested, manual) == TrimSpace(suggested) # <<>> /\ ~manual

\* the selections the buttons of runResponseDecisionScreen can return; ""
\* is returned when the screen stops with no button chosen
DecisionChoices(suggested, manual) ==
    (IF AllowPublish(suggested, manual) THEN {"S"} ELSE {}) \cup {"E"}
        \cup (IF ~manual THEN {"N"} ELSE {}) \cup {""}

\* what runEditAnswerScreen can end with
EditOutcomes ==
    {[kind |-> "err", text |-> <<>>], [kind |-> "cancel", text |-> <<>>]}
        \cup {[kind |-> "save", text |-> t] : t \in EditTexts}

\* a save made when the publish failed
SaveOnFailedPublish(pubOk) == ~pubOk

\* a save that does not look at the publish error
SaveAlways(pubOk) == TRUE

\* the test of the publish error before database.SaveComment: the record
\* is written only when the publish call returned no error
ShouldSave(pubOk) == pubOk

\* the test after llm.SuggestAnswer without the test of the empty text
DraftUnusableOnError(text, err) == err

\* the test after llm.SuggestAnswer that abandons the comment
DraftUnusable(text, err) == text = <<>> \/ err

\* a page end that asks whatever the page held
AlwaysAsk(found) == TRUE

\* the test at the end of a page that leads to the final message or to
\* runNextBatchPrompt
NoUnanswered(found) == ~found

\* a check of the replies that finds no reply of the channel in any thread
NeverAnsweredByMe(rep, t) == FALSE

\* isAnsweredByMe: the replies listed in thread t hold one whose author is
\* the authenticated channel; rep is what the listing shows of each thread
IsAnsweredByMe(rep, t) == rep[t]

\* displayStatus: what the call writes for the operator; the modal of
\* showMessageModal, or the log entry made when the modal cannot be shown,
\* counts as "status"
DisplayStatus(autoMode, title, text) ==
    IF TrimSpace(title) = <<>> /\ TrimSpace(text) = <<>> THEN {}
    ELSE IF autoMode THEN {}
    ELSE {"status"}

\* a quit that closes the store and lets the loop go on
MainGoesOn(by) ==
    /\ pc' = "iterEnd"
    /\ proc' = "running"
    /\ exitBy' = by
    /\ dbHandle' = CloseDB(dbHandle)

\* main returns after the defer of database.CloseDB is registered: CloseDB
\* runs
MainReturns(by) ==
    /\ pc' = "done"
    /\ proc' = "returned"
    /\ exitBy' = by
    /\ dbHandle' = CloseDB(dbHandle)

\* CommentThreads.List of the page at pageToken
Fetch ==
    /\ proc = "running"
    /\ pc = "fetch"
    /\ \/ /\ MainReturns("fetchError")
          /\ UNCHANGED <<loopVars>>
       \/ /\ items' = PageItems(pageToken)
          /\ pageToken' = NextPageToken(pageToken)
          /\ foundUnanswered' = FALSE
          /\ nextBatchAsked' = FALSE
          /\ idx' = 1
          /\ pc' = "item"
          /\ UNCHANGED <<proc, exitBy, dbHandle>>
    /\ UNCHANGED <<captionVars, raw, srt, loading, flagVars, columns, setup, db, replied, commentVars, ev>>

\* the head of the loop over response.Items and the isAnsweredByMe check
NextItem ==
    /\ proc = "running"
    /\ pc = "item"
    /\ \/ /\ idx > Len(items)
          /\ pc' = "pageEnd"
          /\ UNCHANGED <<idx, foundUnanswered, ev>>
       \/ /\ idx <= Len(items)
          /\ IsAnsweredByMe(replied, items[idx])
          /\ idx' = idx + 1
          /\ UNCHANGED <<pc, foundUnanswered, ev>>
       \/ /\ idx <= Len(items)
          /\ ~IsAnsweredByMe(replied, items[idx])
          /\ foundUnanswered' = TRUE
          /\ pc' = "analyze"
          /\ ev' = [NoEv EXCEPT !.id = items[idx]]
          /\ UNCHANGED idx
    /\ UNCHANGED <<captionVars, raw, srt, loading, flagVars, columns, proc, exitBy, setup, dbHandle, db, replied, pageToken, items, nextBatchAsked, commentVars>>

\* the classification step with lookups whose failure ends the handling of
\* the comment
AnalyzeEndingOnLookupError ==
    /\ proc = "running"
    /\ pc = "analyze"
    /\ \E resp \in AnalysisResponses, ragOk \in BOOLEAN, histOk \in BOOLEAN :
          LET a == AnalyzeComment(resp)
              rag == GetPreviousAnswersByContext(db, a.s.Tema, a.s.Sentimento, PrecedentLimit, ragOk)
              hist == GetLastComments(db, AuthorDisplayName(ev.id), HistoryLimit, histOk)
          IN  IF a.err # "nil"
              THEN /\ proc' = "exit1"
                   /\ exitBy' = "analyzeError"
                   /\ pc' = "done"
                   /\ ev' = [ev EXCEPT !.analysis = a.err, !.ended = "exit",
                                       !.notice = {"stdout"}]
                   /\ UNCHANGED <<sentiment, pastAnswers, authorHistory>>
              ELSE /\ sentiment' = a.s
                   /\ pastAnswers' = rag.results
                   /\ authorHistory' = hist.comments
                   /\ ev' = [ev EXCEPT !.analysis = "ok",
                                       !.ended = (IF rag.err \/ hist.err THEN "lookup" ELSE @),
                                       !.notice = (IF rag.err \/ hist.err THEN {"log"} ELSE {})]
                   /\ pc' = (IF rag.err \/ hist.err THEN "iterEnd"
                             ELSE IF ShouldSuggestAnswer(manualMode, a.s)
                             THEN "suggest" ELSE "decide")
                   /\ UNCHANGED <<proc, exitBy>>
    /\ UNCHANGED <<captionVars, raw, srt, loading, flagVars, columns, setup, dbHandle, db, replied, loopVars, suggestedAnswer, answer, input>>

\* a classification step that goes on to the decision step with the zero
\* classification when llm.AnalyzeComment fails
AnalyzeGoingOnAfterFailure ==
    /\ proc = "running"
    /\ pc = "analyze"
    /\ \E resp \in AnalysisResponses, ragOk \in BOOLEAN, histOk \in BOOLEAN :
          LET a == AnalyzeComment(resp)
              rag == GetPreviousAnswersByContext(db, a.s.Tema, a.s.Sentimento, PrecedentLimit, ragOk)
              hist == GetLastComments(db, AuthorDisplayName(ev.id), HistoryLimit, histOk)
          IN  IF a.err # "nil"
              THEN /\ pc' = "decide"
                   /\ ev' = [ev EXCEPT !.analysis = a.err, !.notice = {"stdout"}]
                   /\ UNCHANGED <<proc, exitBy, sentiment, pastAnswers, authorHistory>>
              ELSE /\ sentiment' = a.s
                   /\ pastAnswers' = (IF rag.err THEN <<>> ELSE rag.results)
                   /\ authorHistory' = (IF hist.err THEN <<>> ELSE hist.comments)
                   /\ ev' = [ev EXCEPT !.analysis = "ok",
                                       !.notice = (IF rag.err \/ hist.err THEN {"log"} ELSE {})]
                   /\ pc' = (IF ShouldSuggestAnswer(manualMode, a.s)
                             THEN "suggest" ELSE "decide")
                   /\ UNCHANGED <<proc, exitBy>>
    /\ UNCHANGED <<captionVars, raw, srt, loading, flagVars, columns, setup, dbHandle, db, replied, loopVars, suggestedAnswer, answer, input>>

\* llm.AnalyzeComment and the two lookups of the store
Analyze ==
    /\ proc = "running"
    /\ pc = "analyze"
    /\ \E resp \in AnalysisResponses, ragOk \in BOOLEAN, histOk \in BOOLEAN :
          LET a == AnalyzeComment(resp)
              rag == GetPreviousAnswersByContext(db, a.s.Tema, a.s.Sentimento, PrecedentLimit, ragOk)
              hist == GetLastComments(db, AuthorDisplayName(ev.id), HistoryLimit, histOk)
          IN  IF a.err # "nil"
              THEN /\ proc' = "exit1"
                   /\ exitBy' = "analyzeError"
                   /\ pc' = "done"
                   /\ ev' = [ev EXCEPT !.analysis = a.err, !.ended = "exit",
                                       !.notice = {"stdout"}]
                   /\ UNCHANGED <<sentiment, pastAnswers, authorHistory>>
              ELSE /\ sentiment' = a.s
                   /\ pastAnswers' = (IF rag.err THEN <<>> ELSE rag.results)
                   /\ authorHistory' = (IF hist.err THEN <<>> ELSE hist.comments)
                   /\ ev' = [ev EXCEPT !.analysis = "ok",
                                       !.notice = (IF rag.err \/ hist.err THEN {"log"} ELSE {})]
                   /\ pc' = (IF ShouldSuggestAnswer(manualMode, a.s)
                             THEN "suggest" ELSE "decide")
                   /\ UNCHANGED <<proc, exitBy>>
    /\ UNCHANGED <<captionVars, raw, srt, loading, flagVars, columns, setup, dbHandle, db, replied, loopVars, suggestedAnswer, answer, input>>

\* a transcript fetched for every topic
ShouldFetchTranscriptAlways(mode, s) == mode

\* the test before yt.GetVideoTranscription: the flag is set and the topic
\* is not a greeting
ShouldFetchTranscript(mode, s) ==
    mode /\ s.Tema # "Saudacao/Agradecimento"

\* the transcript lookup, llm.SuggestAnswer and the automatic approval
Suggest ==
    /\ proc = "running"
    /\ pc = "suggest"
    /\ \E resp \in DraftResponses, video \in VideoCases :
          LET d == SuggestAnswer(resp)
              fetch == ShouldFetchTranscript(transcriptionMode, sentiment)
              tr == TranscriptionResult(video.tracks, video.listOk, video.downloadOk)
              videoTranscript == IF fetch THEN tr.text ELSE <<>>
              ev1 == [ev EXCEPT !.draftCalls = @ + 1,
                                !.transcript = (IF ~fetch THEN "none"
                                                ELSE IF tr.err = "nil" THEN "fetched" ELSE tr.err),
                                !.transcriptArg = videoTranscript,
                                !.draft = (IF d.err THEN "error"
                                           ELSE IF d.text = <<>> THEN "empty" ELSE "text"),
                                !.notice = (IF fetch /\ tr.err # "nil" THEN {"log"} ELSE {})
                                             \cup (IF DraftUnusable(d.text, d.err)
                                                      \/ AutoApprove(d.text, sentiment, autoAnswerMode)
                                                   THEN {"stdout"} ELSE {})]
          IN  /\ fetch \/ video = NoVideoCall
              /\ IF DraftUnusable(d.text, d.err)
                 THEN /\ pc' = "iterEnd"
                      /\ ev' = [ev1 EXCEPT !.ended = "nodraft"]
                      /\ suggestedAnswer' = d.text
                      /\ UNCHANGED <<answer, input>>
                 ELSE /\ suggestedAnswer' = d.text
                      /\ answer' = TrimSpace(d.text)
                      /\ input' = (IF AutoApprove(d.text, sentiment, autoAnswerMode)
                                   THEN "S" ELSE "")
                      /\ pc' = (IF AutoApprove(d.text, sentiment, autoAnswerMode)
                                THEN "act" ELSE "decide")
                      /\ ev' = ev1
    /\ UNCHANGED <<captionVars, raw, srt, loading, flagVars, columns, proc, exitBy, setup, dbHandle, db, replied, loopVars, sentiment, pastAnswers, authorHistory>>

\* runResponseDecisionScreen and the forced edit of a comment with no draft
Decide ==
    /\ proc = "running"
    /\ pc = "decide"
    /\ \/ /\ input' = "N"
          /\ pc' = "act"
          /\ ev' = [ev EXCEPT !.choice = "error", !.notice = {"log"}]
          /\ UNCHANGED <<proc, exitBy, dbHandle>>
       \/ /\ MainReturns("decisionQuit")
          /\ ev' = [ev EXCEPT !.prompted = TRUE, !.choice = "quit", !.ended = "quit",
                              !.notice = {"stdout"}]
          /\ UNCHANGED input
       \/ /\ \E sel \in DecisionChoices(suggestedAnswer, manualMode) :
                /\ input' = (IF suggestedAnswer = <<>> /\ sel = "" THEN "E" ELSE sel)
                /\ ev' = [ev EXCEPT !.prompted = TRUE, !.choice = sel,
                                    !.notice = (IF suggestedAnswer = <<>> /\ sel = ""
                                                THEN DisplayStatus(autoAnswerMode, <<"Sugestao", " ", "indisponivel">>, <<"Optei", " ", "por", " ", "nao", " ", "gerar">>)
                                                ELSE {})]
          /\ pc' = "act"
          /\ UNCHANGED <<proc, exitBy, dbHandle>>
    /\ UNCHANGED <<captionVars, raw, srt, loading, flagVars, columns, setup, db, replied, loopVars, sentiment, suggestedAnswer, answer, pastAnswers, authorHistory>>

\* case "S" with a store write whose failure ends the process
ActPublishStoppingOnSaveError ==
    /\ proc = "running"
    /\ pc = "act"
    /\ input = "S"
    /\ \E pubOk \in BOOLEAN, ioOk \in BOOLEAN :
          LET save == SaveComment(db, ev.id, AuthorDisplayName(ev.id), TextOriginal(ev.id), PublishedAt(ev.id), sentiment.Sentimento, sentiment.Nota, sentiment.Tema, answer, FALSE, Len(db) + 1, ioOk)
              stop == ShouldSave(pubOk) /\ save.err
          IN  /\ ShouldSave(pubOk) \/ ioOk
              /\ replied' = (IF pubOk THEN [replied EXCEPT ![ev.id] = TRUE] ELSE replied)
              /\ db' = (IF ShouldSave(pubOk) THEN save.rows ELSE db)
              /\ ev' = [ev EXCEPT !.publishCalls = @ + 1, !.publishVia = "S",
                                  !.publishText = answer, !.publishOk = pubOk,
                                  !.saveCalls = (IF ShouldSave(pubOk) THEN @ + 1 ELSE @),
                                  !.saveOk = (ShouldSave(pubOk) /\ ~save.err),
                                  !.ended = (IF stop THEN "exit" ELSE IF pubOk THEN "published" ELSE "publishFailed"),
                                  !.notice = (IF ~pubOk THEN {"log"} \cup DisplayStatus(autoAnswerMode, <<"Erro", " ", "ao", " ", "publicar">>, <<"Tente", " ", "novamente">>)
                                              ELSE IF save.err THEN {"log"} \cup DisplayStatus(autoAnswerMode, <<"Aviso">>, <<"Resposta", " ", "publicada">>)
                                              ELSE {})]
              /\ proc' = (IF stop THEN "exit1" ELSE proc)
              /\ exitBy' = (IF stop THEN "saveError" ELSE exitBy)
              /\ pc' = (IF stop THEN "done" ELSE "iterEnd")
    /\ UNCHANGED <<captionVars, raw, srt, loading, flagVars, columns, setup, dbHandle, loopVars, commentVars>>


\* case "S" with a save that marks the draft as written by the operator
ActPublishAsEdited ==
    /\ proc = "running"
    /\ pc = "act"
    /\ input = "S"
    /\ \E pubOk \in BOOLEAN, ioOk \in BOOLEAN :
          LET save == SaveComment(db, ev.id, AuthorDisplayName(ev.id), TextOriginal(ev.id), PublishedAt(ev.id), sentiment.Sentimento, sentiment.Nota, sentiment.Tema, answer, TRUE, Len(db) + 1, ioOk)
          IN  /\ ShouldSave(pubOk) \/ ioOk
              /\ replied' = (IF pubOk THEN [replied EXCEPT ![ev.id] = TRUE] ELSE replied)
              /\ db' = (IF ShouldSave(pubOk) THEN save.rows ELSE db)
              /\ ev' = [ev EXCEPT !.publishCalls = @ + 1, !.publishVia = "S",
                                  !.publishText = answer, !.publishOk = pubOk,
                                  !.saveCalls = (IF ShouldSave(pubOk) THEN @ + 1 ELSE @),
                                  !.saveOk = (ShouldSave(pubOk) /\ ~save.err),
                                  !.ended = (IF pubOk THEN "published" ELSE "publishFailed"),
                                  !.notice = (IF ~pubOk THEN {"log"} \cup DisplayStatus(autoAnswerMode, <<"Erro", " ", "ao", " ", "publicar">>, <<"Tente", " ", "novamente">>)
                                              ELSE IF save.err THEN {"log"} \cup DisplayStatus(autoAnswerMode, <<"Aviso">>, <<"Resposta", " ", "publicada">>)
                                              ELSE {})]
    /\ pc' = "iterEnd"
    /\ UNCHANGED <<captionVars, raw, srt, loading, flagVars, columns, proc, exitBy, setup, dbHandle, loopVars, commentVars>>

\* case "S": yt.PublishComment of the draft and database.SaveComment
ActPublish ==
    /\ proc = "running"
    /\ pc = "act"
    /\ input = "S"
    /\ \E pubOk \in BOOLEAN, ioOk \in BOOLEAN :
          LET save == SaveComment(db, ev.id, AuthorDisplayName(ev.id), TextOriginal(ev.id), PublishedAt(ev.id), sentiment.Sentimento, sentiment.Nota, sentiment.Tema, answer, FALSE, Len(db) + 1, ioOk)
          IN  /\ ShouldSave(pubOk) \/ ioOk
              /\ replied' = (IF pubOk THEN [replied EXCEPT ![ev.id] = TRUE] ELSE replied)
              /\ db' = (IF ShouldSave(pubOk) THEN save.rows ELSE db)
              /\ ev' = [ev EXCEPT !.publishCalls = @ + 1, !.publishVia = "S",
                                  !.publishText = answer, !.publishOk = pubOk,
                                  !.saveCalls = (IF ShouldSave(pubOk) THEN @ + 1 ELSE @),
                                  !.saveOk = (ShouldSave(pubOk) /\ ~save.err),
                                  !.ended = (IF pubOk THEN "published" ELSE "publishFailed"),
                                  !.notice = (IF ~pubOk THEN {"log"} \cup DisplayStatus(autoAnswerMode, <<"Erro", " ", "ao", " ", "publicar">>, <<"Tente", " ", "novamente">>)
                                              ELSE IF save.err THEN {"log"} \cup DisplayStatus(autoAnswerMode, <<"Aviso">>, <<"Resposta", " ", "publicada">>)
                                              ELSE {})]
    /\ pc' = "iterEnd"
    /\ UNCHANGED <<captionVars, raw, srt, loading, flagVars, columns, proc, exitBy, setup, dbHandle, loopVars, commentVars>>

\* case "E" without the test of the empty edited text
ActEditPublishingEmpty ==
    /\ proc = "running"
    /\ pc = "act"
    /\ input = "E"
    /\ \E out \in EditOutcomes, pubOk \in BOOLEAN, ioOk \in BOOLEAN :
          LET editedAnswer == TrimSpace(TrimSpace(out.text))
              publish == out.kind = "save"
              save == SaveComment(db, ev.id, AuthorDisplayName(ev.id), TextOriginal(ev.id), PublishedAt(ev.id), sentiment.Sentimento, sentiment.Nota, sentiment.Tema, editedAnswer, TRUE, Len(db) + 1, ioOk)
          IN  /\ publish \/ pubOk
              /\ (publish /\ ShouldSave(pubOk)) \/ ioOk
              /\ IF ~publish
                 THEN /\ ev' = [ev EXCEPT !.edited = (IF out.kind = "save" THEN "empty" ELSE out.kind),
                                          !.ended = "notPublished",
                                          !.notice = (IF out.kind = "err"
                                                      THEN {"log"} \cup DisplayStatus(autoAnswerMode, <<"Erro">>, <<"Nao", " ", "foi", " ", "possivel">>)
                                                      ELSE IF out.kind = "cancel"
                                                      THEN DisplayStatus(autoAnswerMode, <<"Edicao", " ", "cancelada">>, <<"Resposta", " ", "nao", " ", "publicada">>)
                                                      ELSE DisplayStatus(autoAnswerMode, <<"Resposta", " ", "vazia">>, <<"Resposta", " ", "vazia">>))]
                      /\ UNCHANGED <<replied, db, answer>>
                 ELSE /\ answer' = editedAnswer
                      /\ replied' = (IF pubOk THEN [replied EXCEPT ![ev.id] = TRUE] ELSE replied)
                      /\ db' = (IF ShouldSave(pubOk) THEN save.rows ELSE db)
                      /\ ev' = [ev EXCEPT !.edited = "text",
                                          !.publishCalls = @ + 1, !.publishVia = "E",
                                          !.publishText = editedAnswer, !.publishOk = pubOk,
                                          !.saveCalls = (IF ShouldSave(pubOk) THEN @ + 1 ELSE @),
                                          !.saveOk = (ShouldSave(pubOk) /\ ~save.err),
                                          !.ended = (IF pubOk THEN "published" ELSE "publishFailed"),
                                          !.notice = (IF ~pubOk THEN {"log"} \cup DisplayStatus(autoAnswerMode, <<"Erro", " ", "ao", " ", "publicar">>, <<"Tente", " ", "novamente">>)
                                                      ELSE IF save.err THEN {"log"} \cup DisplayStatus(autoAnswerMode, <<"Aviso">>, <<"Resposta", " ", "editada", " ", "publicada">>)
                                                      ELSE {})]
    /\ pc' = "iterEnd"
    /\ UNCHANGED <<captionVars, raw, srt, loading, flagVars, columns, proc, exitBy, setup, dbHandle, loopVars, sentiment, suggestedAnswer, input, pastAnswers, authorHistory>>

\* case "E": runEditAnswerScreen, yt.PublishComment of the edited text and
\* database.SaveComment
ActEdit ==
    /\ proc = "running"
    /\ pc = "act"
    /\ input = "E"
    /\ \E out \in EditOutcomes, pubOk \in BOOLEAN, ioOk \in BOOLEAN :
          LET editedAnswer == TrimSpace(TrimSpace(out.text))
              publish == out.kind = "save" /\ editedAnswer # <<>>
              save == SaveComment(db, ev.id, AuthorDisplayName(ev.id), TextOriginal(ev.id), PublishedAt(ev.id), sentiment.Sentimento, sentiment.Nota, sentiment.Tema, editedAnswer, TRUE, Len(db) + 1, ioOk)
          IN  /\ publish \/ pubOk
              /\ (publish /\ ShouldSave(pubOk)) \/ ioOk
              /\ IF ~publish
                 THEN /\ ev' = [ev EXCEPT !.edited = (IF out.kind = "save" THEN "empty" ELSE out.kind),
                                          !.ended = "notPublished",
                                          !.notice = (IF out.kind = "err"
                                                      THEN {"log"} \cup DisplayStatus(autoAnswerMode, <<"Erro">>, <<"Nao", " ", "foi", " ", "possivel">>)
                                                      ELSE IF out.kind = "cancel"
                                                      THEN DisplayStatus(autoAnswerMode, <<"Edicao", " ", "cancelada">>, <<"Resposta", " ", "nao", " ", "publicada">>)
                                                      ELSE DisplayStatus(autoAnswerMode, <<"Resposta", " ", "vazia">>, <<"Resposta", " ", "vazia">>))]
                      /\ UNCHANGED <<replied, db, answer>>
                 ELSE /\ answer' = editedAnswer
                      /\ replied' = (IF pubOk THEN [replied EXCEPT ![ev.id] = TRUE] ELSE replied)
                      /\ db' = (IF ShouldSave(pubOk) THEN save.rows ELSE db)
                      /\ ev' = [ev EXCEPT !.edited = "text",
                                          !.publishCalls = @ + 1, !.publishVia = "E",
                                          !.publishText = editedAnswer, !.publishOk = pubOk,
                                          !.saveCalls = (IF ShouldSave(pubOk) THEN @ + 1 ELSE @),
                                          !.saveOk = (ShouldSave(pubOk) /\ ~save.err),
                                          !.ended = (IF pubOk THEN "published" ELSE "publishFailed"),
                                          !.notice = (IF ~pubOk THEN {"log"} \cup DisplayStatus(autoAnswerMode, <<"Erro", " ", "ao", " ", "publicar">>, <<"Tente", " ", "novamente">>)
                                                      ELSE IF save.err THEN {"log"} \cup DisplayStatus(autoAnswerMode, <<"Aviso">>, <<"Resposta", " ", "editada", " ", "publicada">>)
                                                      ELSE {})]
    /\ pc' = "iterEnd"
    /\ UNCHANGED <<captionVars, raw, srt, loading, flagVars, columns, proc, exitBy, setup, dbHandle, loopVars, sentiment, suggestedAnswer, input, pastAnswers, authorHistory>>

\* case "Q" and the default case of the switch
ActSkip ==
    /\ proc = "running"
    /\ pc = "act"
    /\ input \notin {"S", "E"}
    /\ IF input = "Q"
       THEN /\ MainReturns("switchQuit")
            /\ ev' = [ev EXCEPT !.ended = "quit",
                                !.notice = DisplayStatus(autoAnswerMode, <<"Encerrando">>, <<"Encerrando", " ", "a", " ", "aplicacao">>)]
       ELSE /\ pc' = "iterEnd"
            /\ ev' = [ev EXCEPT !.ended = "skipped",
                                !.notice = DisplayStatus(autoAnswerMode, <<"Aviso">>, <<"Resposta", " ", "nao", " ", "publicada">>)]
            /\ UNCHANGED <<proc, exitBy, dbHandle>>
    /\ UNCHANGED <<captionVars, raw, srt, loading, flagVars, columns, setup, db, replied, loopVars, commentVars>>

\* the end of one iteration of the loop over the items of the page: the
\* variables declared in the body go out of scope
EndIteration ==
    /\ proc = "running"
    /\ pc = "iterEnd"
    /\ pc' = "item"
    /\ idx' = idx + 1
    /\ sentiment' = ZeroSentimentAnalysis
    /\ suggestedAnswer' = <<>>
    /\ answer' = <<>>
    /\ input' = ""
    /\ pastAnswers' = <<>>
    /\ authorHistory' = <<>>
    /\ ev' = NoEv
    /\ UNCHANGED <<captionVars, raw, srt, loading, flagVars, columns, proc, exitBy, setup, dbHandle, db, replied, pageToken, items, foundUnanswered, nextBatchAsked>>

\* the page held no unanswered comment and there is no further page
PageEndFinal ==
    /\ proc = "running"
    /\ pc = "pageEnd"
    /\ NoUnanswered(foundUnanswered)
    /\ pageToken = 0
    /\ MainReturns("noMoreComments")
    /\ UNCHANGED <<captionVars, raw, srt, loading, flagVars, columns, setup, db, replied, loopVars, commentVars, ev>>

\* the page held no unanswered comment and there is a further page:
\* runNextBatchPrompt
PageEndPrompt ==
    /\ proc = "running"
    /\ pc = "pageEnd"
    /\ NoUnanswered(foundUnanswered)
    /\ pageToken # 0
    /\ nextBatchAsked' = TRUE
    /\ \/ /\ MainReturns("nextBatchQuit")
       \/ /\ pc' = "fetch"
          /\ UNCHANGED <<proc, exitBy, dbHandle>>
    /\ UNCHANGED <<captionVars, raw, srt, loading, flagVars, columns, setup, db, replied, pageToken, items, idx, foundUnanswered, commentVars, ev>>

\* the page held an unanswered comment: the loop goes on with the next fetch
PageEndContinue ==
    /\ proc = "running"
    /\ pc = "pageEnd"
    /\ ~NoUnanswered(foundUnanswered)
    /\ pc' = "fetch"
    /\ UNCHANGED <<captionVars, raw, srt, loading, flagVars, columns, proc, exitBy, setup, dbHandle, db, replied, loopVars, commentVars, ev>>

Next ==
    \/ SetupInitDB
    \/ SetupSteps
    \/ SetupReady
    \/ PressStart
    \/ PressExit
    \/ PrepInterrupt
    \/ PrepRunError
    \/ AfterPreparation
    \/ Fetch
    \/ NextItem
    \/ Analyze
    \/ Suggest
    \/ Decide
    \/ ActPublish
    \/ ActEdit
    \/ ActSkip
    \/ EndIteration
    \/ PageEndFinal
    \/ PageEndPrompt
    \/ PageEndContinue

Spec == Init /\ [][Next]_vars

\* ------------------------------------------------- the store on its own
\* the database package driven by arbitrary callers: any sequence of
\* SaveComment calls, with GetPreviousAnswersByContext called in between
StoreInit ==
    /\ captions = <<>>
    /\ captionId = 0
    /\ raw = <<>>
    /\ srt = <<>>
    /\ loading = NoLoading
    /\ manualMode = FALSE
    /\ autoAnswerMode = FALSE
    /\ transcriptionMode = FALSE
    /\ pc = "store"
    /\ proc = "running"
    /\ exitBy = "none"
    /\ nextBatchAsked = FALSE
    /\ setup = [gpc |-> "done", initOk |-> TRUE, ready |-> TRUE,
                quit |-> FALSE, setupErr |-> FALSE, result |-> TRUE]
    /\ dbHandle = "open"
    /\ columns = NewColumns
    /\ db = <<>>
    /\ replied = [t \in Threads |-> FALSE]
    /\ pageToken = 0
    /\ items = <<>>
    /\ idx = 1
    /\ foundUnanswered = FALSE
    /\ sentiment = ZeroSentimentAnalysis
    /\ suggestedAnswer = <<>>
    /\ answer = <<>>
    /\ input = ""
    /\ pastAnswers = <<>>
    /\ authorHistory = <<>>
    /\ ev = NoEv

\* the responses a caller may save
StoreResponses == {<<>>, <<"Amem!">>}

\* the classifications a caller may save or ask about: two topics with the
\* same sentiment and two sentiments with the same topic
StoreDocs == {"j_pos4", "j_pos3", "j_neu4"}

\* a call of database.InitDB on the store as it is (the start of a later
\* run)
StoreInitDB ==
    /\ pc = "store"
    /\ \E failAt \in InitFailures :
          LET init == InitDB(columns, db, failAt)
          IN  /\ columns' = init.columns
              /\ db' = init.rows
    /\ dbHandle' = "open"
    /\ UNCHANGED <<captionVars, raw, srt, loading, flagVars, pc, proc, exitBy, setup, replied, loopVars, commentVars, ev>>

\* a call of database.SaveComment; ev keeps whether the call returned an
\* error
StoreSave ==
    /\ pc = "store"
    /\ \E t \in Threads, j \in StoreDocs, response \in StoreResponses, userAnswered \in BOOLEAN :
          LET save == SaveComment(db, t, AuthorDisplayName(t), TextOriginal(t), PublishedAt(t), JsonDoc[j].Sentimento, JsonDoc[j].Nota, JsonDoc[j].Tema, response, userAnswered, Len(db) + 1, TRUE)
          IN  /\ db' = save.rows
              /\ ev' = [NoEv EXCEPT !.saveCalls = 1, !.saveOk = ~save.err]
    /\ UNCHANGED <<captionVars, raw, srt, loading, flagVars, columns, pc, proc, exitBy, setup, dbHandle, replied, loopVars, commentVars>>

\* a call of database.GetLastComments
StoreHistory ==
    /\ pc = "store"
    /\ \E t \in Threads, limit \in {1, HistoryLimit}, ioOk \in BOOLEAN :
          authorHistory' = GetLastComments(db, AuthorDisplayName(t), limit, ioOk).comments
    /\ UNCHANGED <<captionVars, raw, srt, loading, flagVars, columns, pc, proc, exitBy, setup, dbHandle, db, replied, loopVars, sentiment, suggestedAnswer, answer, input, pastAnswers, ev>>

\* a call of database.GetPreviousAnswersByContext
StoreQuery ==
    /\ pc = "store"
    /\ \E j \in StoreDocs, limit \in {1, PrecedentLimit}, ioOk \in BOOLEAN :
          pastAnswers' = GetPreviousAnswersByContext(db, JsonDoc[j].Tema, JsonDoc[j].Sentimento, limit, ioOk).results
    /\ UNCHANGED <<captionVars, raw, srt, loading, flagVars, columns, pc, proc, exitBy, setup, dbHandle, db, replied, loopVars, sentiment, suggestedAnswer, answer, input, authorHistory, ev>>

StoreNext ==
    \/ StoreInitDB
    \/ StoreSave
    \/ StoreQuery
    \/ StoreHistory

StoreSpec == StoreInit /\ [][StoreNext]_vars

\* ------------------------------------------- a run over a kept store
\* comments.db is kept between runs: the records a run may start with, for
\* the first thread
KeptRecords ==
    { Row(1, AuthorDisplayName(1), TextOriginal(1), "positivo", 4, <<"Amem!">>, "Saudacao/Agradecimento", FALSE, PublishedAt(1), 1),
      Row(1, AuthorDisplayName(1), TextOriginal(1), "positivo", 3, <<"Gloria">>, "Duvida (Geral)", TRUE, PublishedAt(1), 1) }

\* main at the start of the loop, after a preparation that succeeded, with
\* a record of the first thread in the store and no reply of the channel
\* in the listing of that thread (the reply was removed, or is not among
\* the replies the listing holds)
RerunInit ==
    /\ captions = <<>>
    /\ captionId = 0
    /\ raw = <<>>
    /\ srt = <<>>
    /\ loading = NoLoading
    /\ manualMode \in BOOLEAN
    /\ autoAnswerMode \in BOOLEAN
    /\ transcriptionMode \in BOOLEAN
    /\ pc = "fetch"
    /\ proc = "running"
    /\ exitBy = "none"
    /\ nextBatchAsked = FALSE
    /\ setup = [gpc |-> "done", initOk |-> TRUE, ready |-> TRUE,
                quit |-> FALSE, setupErr |-> FALSE, result |-> TRUE]
    /\ dbHandle = "open"
    /\ columns = NewColumns
    /\ \E r \in KeptRecords : db = <<r>>
    /\ replied \in {f \in [Threads -> BOOLEAN] : ~f[1]}
    /\ pageToken = 0
    /\ items = <<>>
    /\ idx = 1
    /\ foundUnanswered = FALSE
    /\ sentiment = ZeroSentimentAnalysis
    /\ suggestedAnswer = <<>>
    /\ answer = <<>>
    /\ input = ""
    /\ pastAnswers = <<>>
    /\ authorHistory = <<>>
    /\ ev = NoEv

RerunNext ==
    \/ Fetch
    \/ NextItem
    \/ Analyze
    \/ Suggest
    \/ Decide
    \/ ActPublish
    \/ ActEdit
    \/ ActSkip
    \/ EndIteration
    \/ PageEndFinal
    \/ PageEndPrompt
    \/ PageEndContinue

RerunSpec == RerunInit /\ [][RerunNext]_vars

\* ------------------------------------------- a start over a kept table
\* database.InitDB run on a comments.db file left by an earlier version of
\* the program or by this one, followed by reads of the store
KeptOldRows(t) ==
    {OldRow(t, AuthorDisplayName(t), TextOriginal(t), "positivo", 3, r, u, PublishedAt(t), t) :
        r \in StoreResponses, u \in BOOLEAN}

\* the rows a table with the present schema may hold for thread t: rows
\* written by the present SaveComment, and rows of the old schema that an
\* earlier run migrated
KeptNewRows(t) ==
    {Row(t, AuthorDisplayName(t), TextOriginal(t), JsonDoc[j].Sentimento, JsonDoc[j].Nota, r, JsonDoc[j].Tema, u, PublishedAt(t), t) :
        j \in {"j_pos3", "j_neu4"}, r \in StoreResponses, u \in BOOLEAN}
      \cup {o @@ [theme |-> Null] : o \in KeptOldRows(t)}

\* the tables of up to NumThreads rows written with the old schema
OldTables ==
    UNION {{f \in [1..n -> UNION {KeptOldRows(t) : t \in Threads}] : \A i \in 1..n : f[i].id = i} : n \in 0..NumThreads}

\* the tables of up to NumThreads rows written with the present schema
NewTables ==
    UNION {{f \in [1..n -> UNION {KeptNewRows(t) : t \in Threads}] : \A i \in 1..n : f[i].id = i} : n \in 0..NumThreads}

MigrationInit ==
    /\ captions = <<>>
    /\ captionId = 0
    /\ raw = <<>>
    /\ srt = <<>>
    /\ loading = NoLoading
    /\ manualMode = FALSE
    /\ autoAnswerMode = FALSE
    /\ transcriptionMode = FALSE
    /\ pc = "migrate"
    /\ proc = "running"
    /\ exitBy = "none"
    /\ nextBatchAsked = FALSE
    /\ setup = [gpc |-> "initdb", initOk |-> FALSE, ready |-> FALSE,
                quit |-> FALSE, setupErr |-> FALSE, result |-> FALSE]
    /\ dbHandle = "nil"
    /\ \/ columns = {} /\ db = <<>>
       \/ columns = OldColumns /\ db \in OldTables
       \/ columns = NewColumns /\ db \in NewTables
    /\ replied = [t \in Threads |-> FALSE]
    /\ pageToken = 0
    /\ items = <<>>
    /\ idx = 1
    /\ foundUnanswered = FALSE
    /\ sentiment = ZeroSentimentAnalysis
    /\ suggestedAnswer = <<>>
    /\ answer = <<>>
    /\ input = ""
    /\ pastAnswers = <<>>
    /\ authorHistory = <<>>
    /\ ev = NoEv

\* the first call of database.InitDB of the run on the kept table
MigrationInitDB ==
    /\ pc = "migrate"
    /\ \E failAt \in InitFailures :
          LET init == InitDB(columns, db, failAt)
          IN  /\ columns' = init.columns
              /\ db' = init.rows
              /\ dbHandle' = (IF failAt = "open" THEN "nil" ELSE "open")
              /\ pc' = (IF init.err THEN "done" ELSE "store")
              /\ setup' = (IF init.err
                           THEN [setup EXCEPT !.gpc = "failed", !.setupErr = TRUE]
                           ELSE [setup EXCEPT !.gpc = "steps", !.initOk = TRUE])
    /\ UNCHANGED <<captionVars, raw, srt, loading, flagVars, proc, exitBy, replied, loopVars, commentVars, ev>>

MigrationNext ==
    \/ MigrationInitDB
    \/ StoreInitDB
    \/ StoreQuery
    \/ StoreHistory

MigrationSpec == MigrationInit /\ [][MigrationNext]_vars

\* ------------------------------------------- the analysis parser alone
\* llm.AnalyzeComment driven on its own over responses that hold one
\* classification document inside a code fence; raw is resp.Text()
FenceOpenings == {<<Fence>>, <<Fence, LangTag>>}

Paddings == {<<>>, <<" ">>, <<"\n">>}

FencedResponses ==
    {before \o open \o inLeft \o <<j>> \o inRight \o <<Fence>> \o after :
        before \in Paddings, open \in FenceOpenings, inLeft \in {<<>>, <<"\n">>},
        j \in DOMAIN JsonDoc, inRight \in {<<>>, <<"\n">>}, after \in Paddings}

ParseInit ==
    /\ captions = <<>>
    /\ captionId = 0
    /\ raw \in FencedResponses \cup {<<j>> : j \in DOMAIN JsonDoc}
    /\ srt = <<>>
    /\ loading = NoLoading
    /\ manualMode = FALSE
    /\ autoAnswerMode = FALSE
    /\ transcriptionMode = FALSE
    /\ pc = "parse"
    /\ proc = "running"
    /\ exitBy = "none"
    /\ nextBatchAsked = FALSE
    /\ setup = [gpc |-> "done", initOk |-> TRUE, ready |-> TRUE,
                quit |-> FALSE, setupErr |-> FALSE, result |-> TRUE]
    /\ dbHandle = "open"
    /\ columns = NewColumns
    /\ db = <<>>
    /\ replied = [t \in Threads |-> FALSE]
    /\ pageToken = 0
    /\ items = <<>>
    /\ idx = 1
    /\ foundUnanswered = FALSE
    /\ sentiment = ZeroSentimentAnalysis
    /\ suggestedAnswer = <<>>
    /\ answer = <<>>
    /\ input = ""
    /\ pastAnswers = <<>>
    /\ authorHistory = <<>>
    /\ ev = NoEv

\* a call of llm.AnalyzeComment whose GenerateContent answers with raw or
\* fails
ParseAnalysis ==
    /\ pc = "parse"
    /\ \E err \in BOOLEAN :
          LET a == AnalyzeComment([err |-> err, text |-> raw])
          IN  /\ sentiment' = a.s
              /\ ev' = [ev EXCEPT !.analysis = (IF a.err = "nil" THEN "ok" ELSE a.err)]
    /\ pc' = "parsed"
    /\ UNCHANGED <<captionVars, raw, srt, loading, flagVars, columns, proc, exitBy, setup, dbHandle, db, replied, loopVars, suggestedAnswer, answer, input, pastAnswers, authorHistory>>

ParseNext == ParseAnalysis

ParseSpec == ParseInit /\ [][ParseNext]_vars

\* ------------------------------------------------- transcript selection
\* youtube.GetVideoTranscription driven on its own over every list of
\* caption tracks; a track's Id is its position in the list and 0 stands
\* for the empty captionId
CaptionInit ==
    /\ captions \in CaptionLists
    /\ captionId = 0
    /\ raw = <<>>
    /\ srt = <<>>
    /\ loading = NoLoading
    /\ manualMode = FALSE
    /\ autoAnswerMode = FALSE
    /\ transcriptionMode = TRUE
    /\ pc = "captions"
    /\ proc = "running"
    /\ exitBy = "none"
    /\ nextBatchAsked = FALSE
    /\ setup = [gpc |-> "done", initOk |-> TRUE, ready |-> TRUE,
                quit |-> FALSE, setupErr |-> FALSE, result |-> TRUE]
    /\ dbHandle = "open"
    /\ columns = NewColumns
    /\ db = <<>>
    /\ replied = [t \in Threads |-> FALSE]
    /\ pageToken = 0
    /\ items = <<>>
    /\ idx = 1
    /\ foundUnanswered = FALSE
    /\ sentiment = ZeroSentimentAnalysis
    /\ suggestedAnswer = <<>>
    /\ answer = <<>>
    /\ input = ""
    /\ pastAnswers = <<>>
    /\ authorHistory = <<>>
    /\ ev = NoEv

\* GetVideoTranscription: the listing of the tracks, the selection, and the
\* download of the selected track
GetVideoTranscription ==
    /\ pc = "captions"
    /\ \E listOk \in BOOLEAN, downloadOk \in BOOLEAN :
          LET tr == TranscriptionResult(captions, listOk, downloadOk)
          IN  /\ captionId' = tr.captionId
              /\ ev' = [ev EXCEPT !.transcript = (IF tr.err = "nil" THEN "fetched" ELSE tr.err),
                                  !.transcriptArg = tr.text]
    /\ pc' = "captioned"
    /\ UNCHANGED <<captions, raw, srt, loading, flagVars, columns, proc, exitBy, setup, dbHandle, db, replied, loopVars, commentVars>>

CaptionNext == GetVideoTranscription

CaptionSpec == CaptionInit /\ [][CaptionNext]_vars

\* ------------------------------------------- the loading screen alone
\* main from the call of runLoadingScreen for a comment to the place it
\* goes to when stopLoading has returned, with the goroutine that runs the
\* screen and the operator at the keyboard
LoadingInit ==
    /\ captions = <<>>
    /\ captionId = 0
    /\ raw = <<>>
    /\ srt = <<>>
    /\ loading = NoLoading
    /\ manualMode \in BOOLEAN
    /\ autoAnswerMode \in BOOLEAN
    /\ transcriptionMode \in BOOLEAN
    /\ pc = "loading"
    /\ proc = "running"
    /\ exitBy = "none"
    /\ nextBatchAsked = FALSE
    /\ setup = [gpc |-> "done", initOk |-> TRUE, ready |-> TRUE,
                quit |-> FALSE, setupErr |-> FALSE, result |-> TRUE]
    /\ dbHandle = "open"
    /\ columns = NewColumns
    /\ db = <<>>
    /\ replied = [t \in Threads |-> FALSE]
    /\ pageToken = 0
    /\ items = <<>>
    /\ idx = 1
    /\ foundUnanswered = TRUE
    /\ sentiment = ZeroSentimentAnalysis
    /\ suggestedAnswer = <<>>
    /\ answer = <<>>
    /\ input = ""
    /\ pastAnswers = <<>>
    /\ authorHistory = <<>>
    /\ ev = NoEv

\* the places main goes to after a call of stopLoading: "exit" after the
\* failed classification, "next" (the next comment) after the unusable
\* draft, and after the call in front of the decision step "decision" (the
\* decision screen) or, when the draft was approved by main, "publish"
\* (the publish step and its status screens)
AfterStops(manual, auto) ==
    {"exit", "decision"}
        \cup (IF ~manual THEN {"next"} ELSE {})
        \cup (IF ~manual /\ auto THEN {"publish"} ELSE {})

\* Application.Stop of tview: with no screen it returns with no effect;
\* otherwise it takes the screen away, which ends the event loop of Run
AppStop(screen) == "nil"

\* runLoadingScreen and the assignment of stopLoading: a new application,
\* a new channel, a new Once, and the goroutine is started
RunLoadingScreen ==
    /\ loading.lpc = "start"
    /\ loading' = [NoLoading EXCEPT !.lpc = "work", !.gpc = "spawned",
                                    !.closer = "set"]
    /\ UNCHANGED <<captionVars, raw, srt, flagVars, pc, proc, exitBy, setup, dbHandle, columns, db, replied, loopVars, commentVars, ev>>

\* the lookups, the classification and the draft, up to one of the three
\* calls of stopLoading
PipelineToStop ==
    /\ loading.lpc = "work"
    /\ \E a \in AfterStops(manualMode, autoAnswerMode) :
          loading' = [loading EXCEPT !.lpc = "stopCall", !.after = a]
    /\ UNCHANGED <<captionVars, raw, srt, flagVars, pc, proc, exitBy, setup, dbHandle, columns, db, replied, loopVars, commentVars, ev>>

\* stopLoading calls closer, whose once.Do calls app.Stop()
StopLoading ==
    /\ loading.lpc = "stopCall"
    /\ loading.closer = "set"
    /\ ~loading.onceDone
    /\ loading' = [loading EXCEPT !.lpc = "stopWait",
                                  !.screen = AppStop(loading.screen)]
    /\ UNCHANGED <<captionVars, raw, srt, flagVars, pc, proc, exitBy, setup, dbHandle, columns, db, replied, loopVars, commentVars, ev>>

\* result = <-errChan, the end of once.Do and of stopLoading; main goes on
StopReceives ==
    /\ loading.lpc = "stopWait"
    /\ loading.errChan # <<>>
    /\ loading' = [loading EXCEPT !.lpc = loading.after,
                                  !.result = Head(loading.errChan),
                                  !.errChan = Tail(loading.errChan),
                                  !.onceDone = TRUE,
                                  !.closer = "nil",
                                  !.logged = (Head(loading.errChan) = "err")]
    /\ UNCHANGED <<captionVars, raw, srt, flagVars, pc, proc, exitBy, setup, dbHandle, columns, db, replied, loopVars, commentVars, ev>>

\* the goroutine: Run makes the screen of the application, which can
\* fail, and enters the event loop
GoRun ==
    /\ loading.gpc = "spawned"
    /\ \/ loading' = [loading EXCEPT !.gpc = "done",
                                     !.errChan = Append(@, "err")]
       \/ loading' = [loading EXCEPT !.gpc = "eventLoop", !.screen = "set"]
    /\ UNCHANGED <<captionVars, raw, srt, flagVars, pc, proc, exitBy, setup, dbHandle, columns, db, replied, loopVars, commentVars, ev>>

\* the goroutine: the event loop ends when the screen has been taken away,
\* Run returns nil and the goroutine sends it on errChan
GoRunReturns ==
    /\ loading.gpc = "eventLoop"
    /\ loading.screen = "nil"
    /\ loading' = [loading EXCEPT !.gpc = "done",
                                  !.errChan = Append(@, "nil")]
    /\ UNCHANGED <<captionVars, raw, srt, flagVars, pc, proc, exitBy, setup, dbHandle, columns, db, replied, loopVars, commentVars, ev>>

\* the operator presses Ctrl-C while the loading screen is up: the event
\* loop calls Stop
LoadingCtrlC ==
    /\ loading.gpc = "eventLoop"
    /\ loading.screen = "set"
    /\ loading' = [loading EXCEPT !.screen = AppStop(loading.screen)]
    /\ UNCHANGED <<captionVars, raw, srt, flagVars, pc, proc, exitBy, setup, dbHandle, columns, db, replied, loopVars, commentVars, ev>>

\* the rest of the handling of the comment; the loop takes the next one
LoadingNextComment ==
    /\ loading.lpc \in {"next", "decision", "publish"}
    /\ loading' = NoLoading
    /\ UNCHANGED <<captionVars, raw, srt, flagVars, pc, proc, exitBy, setup, dbHandle, columns, db, replied, loopVars, commentVars, ev>>

LoadingNext ==
    \/ RunLoadingScreen
    \/ PipelineToStop
    \/ StopLoading
    \/ StopReceives
    \/ GoRun
    \/ GoRunReturns
    \/ LoadingCtrlC
    \/ LoadingNextComment

\* main and the goroutine are both scheduled; the operator need not press
\* any key
LoadingSpec ==
    /\ LoadingInit
    /\ [][LoadingNext]_vars
    /\ WF_vars(PipelineToStop)
    /\ WF_vars(StopLoading)
    /\ WF_vars(StopReceives)
    /\ WF_vars(GoRun)
    /\ WF_vars(GoRunReturns)

\* ------------------------------------------------ the cleaning alone
\* the characters of the subtitle texts: a digit, the characters of the
\* cue arrow, a letter, the space and the newline
SrtChars == {"7", "-", ">", "a", " ", "\n"}

SrtTexts == UNION {[1..n -> SrtChars] : n \in 0..MaxSrtLen}

\* GetVideoTranscription with the text of the download in hand
CleanInit ==
    /\ captions = <<>>
    /\ captionId = 0
    /\ raw = <<>>
    /\ srt \in SrtTexts
    /\ loading = NoLoading
    /\ manualMode = FALSE
    /\ autoAnswerMode = FALSE
    /\ transcriptionMode = TRUE
    /\ pc = "clean"
    /\ proc = "running"
    /\ exitBy = "none"
    /\ nextBatchAsked = FALSE
    /\ setup = [gpc |-> "done", initOk |-> TRUE, ready |-> TRUE,
                quit |-> FALSE, setupErr |-> FALSE, result |-> TRUE]
    /\ dbHandle = "open"
    /\ columns = NewColumns
    /\ db = <<>>
    /\ replied = [t \in Threads |-> FALSE]
    /\ pageToken = 0
    /\ items = <<>>
    /\ idx = 1
    /\ foundUnanswered = FALSE
    /\ sentiment = ZeroSentimentAnalysis
    /\ suggestedAnswer = <<>>
    /\ answer = <<>>
    /\ input = ""
    /\ pastAnswers = <<>>
    /\ authorHistory = <<>>
    /\ ev = NoEv

\* return cleanTranscript(transcript.String()), nil
CleanStep ==
    /\ pc = "clean"
    /\ pc' = "cleaned"
    /\ ev' = [ev EXCEPT !.transcript = "fetched",
                        !.transcriptArg = CleanTranscript(srt)]
    /\ UNCHANGED <<captionVars, raw, srt, loading, flagVars, columns, proc, exitBy, setup, dbHandle, db, replied, loopVars, commentVars>>

CleanNext == CleanStep

CleanSpec == CleanInit /\ [][CleanNext]_vars

\* ---------------------------------------------------------------- claims
\* the (topic, sentiment) pairs the precedent lookup is asked about
Contexts == {<<JsonDoc[j].Tema, JsonDoc[j].Sentimento>> : j \in DOMAIN JsonDoc}

\* the comment in hand meets the four conditions of the automatic approval
AutoCondition ==
    /\ sentiment.Sentimento = "positivo"
    /\ sentiment.Nota >= 4
    /\ autoAnswerMode
    /\ ev.draft = "text"

\* C1: yt.PublishComment is called for a comment without the decision screen
\* having been shown and without an edit only if the classification is
\* positive with score >= 4, auto-answer mode is set and the drafter gave a
\* non-empty draft; and whenever these four hold the decision screen is
\* never shown for the comment, the input is "S" and the draft is published
\* by the end of the iteration.  In every other combination a publish call
\* comes after the operator chose on the decision screen.
C1_AutoPublishIffApproved ==
    /\ (ev.publishCalls > 0 /\ ~ev.prompted)
          => (AutoCondition /\ ev.publishVia = "S" /\ ev.edited = "none")
    /\ AutoCondition
          => /\ pc # "decide"
             /\ ~ev.prompted
             /\ ev.choice = "none"
             /\ input = "S"
             /\ (pc = "iterEnd" => ev.publishCalls = 1 /\ ev.publishVia = "S")
    /\ (ev.publishCalls > 0 /\ ~AutoCondition) => ev.prompted

\* C1 witness: a positive comment of score >= 4 was published in auto mode
\* with no prompt
C1_Witness ==
    /\ pc = "iterEnd"
    /\ AutoCondition
    /\ ev.publishCalls = 1
    /\ ev.publishOk
    /\ ~ev.prompted

\* C2: in manual mode the drafter is never called and there is never a
\* draft, the input is never "S", and a reply is published only by the edit
\* step after the operator chose on the decision screen; whatever the
\* classification, a choice made on the decision screen leads to the edit
\* step.
C2_ManualForcesEdit ==
    manualMode =>
        /\ ev.draftCalls = 0
        /\ suggestedAnswer = <<>>
        /\ input # "S"
        /\ ev.publishVia # "S"
        /\ (ev.publishCalls > 0
               => ev.prompted /\ ev.edited = "text" /\ ev.publishVia = "E")
        /\ (pc = "act" /\ ev.prompted => input = "E")

\* C2 witness: in manual mode, with auto mode also set, a positive comment
\* of score >= 4 was published through the edit step
C2_Witness ==
    /\ manualMode
    /\ autoAnswerMode
    /\ sentiment.Sentimento = "positivo"
    /\ sentiment.Nota >= 4
    /\ ev.publishVia = "E"
    /\ ev.publishOk

\* C3: for a comment classified negative or with score < 3,
\* llm.SuggestAnswer is not called, whatever the flags are.
C3_NoDraftForNegativeOrLowScore ==
    (ev.analysis = "ok" /\ (sentiment.Sentimento = "negativo" \/ sentiment.Nota < 3))
        => (ev.draftCalls = 0 /\ ev.draft = "none" /\ pc # "suggest")

\* C3 witness: a negative comment of score 5 was handled to the end of its
\* iteration outside manual mode with no draft requested
C3_Witness ==
    /\ ~manualMode
    /\ pc = "iterEnd"
    /\ sentiment.Sentimento = "negativo"
    /\ sentiment.Nota = 5
    /\ ev.draftCalls = 0

\* C4: database.SaveComment is called for a comment exactly when
\* yt.PublishComment succeeded for it, at most once; it is not called when
\* the comment was skipped, the edit was cancelled or empty, the publish
\* failed, the draft failed or the operator quit; and every row of the
\* store belongs to a comment that was replied to.
C4_SaveIffPublished ==
    /\ (ev.saveCalls > 0) <=> ev.publishOk
    /\ ev.saveCalls <= 1
    /\ (ev.ended = "published") <=> (ev.saveCalls = 1)
    /\ ev.saveOk => (db # <<>> /\ db[Len(db)].id = ev.id)
    /\ \A i \in 1..Len(db) : replied[db[i].id]

\* C4 witness: an edited reply was published and its record written
C4_Witness ==
    /\ ev.ended = "published"
    /\ ev.publishVia = "E"
    /\ ev.saveCalls = 1
    /\ ev.saveOk

\* C5: when llm.AnalyzeComment fails for a comment (transport failure or
\* undecodable response) the process keeps running and the loop goes on.
C5_ClassifyFailureKeepsRunning ==
    ev.analysis \in {"transport", "parse"} => proc = "running"

\* the ways the process ends that have the store handle closed
ClosingExits ==
    {"prepQuit", "setupError", "decisionQuit", "switchQuit", "fetchError",
     "noMoreComments", "nextBatchQuit", "analyzeError"}

\* C6: when the process has ended after database.InitDB succeeded, by an
\* operator quit on the preparation screen, a fatal setup error, a quit
\* from the decision screen, a fetch error, the normal end of paging or a
\* classification failure, database.CloseDB has been called on the handle.
C6_StoreClosedOnEveryExit ==
    (proc # "running" /\ setup.initOk /\ exitBy \in ClosingExits)
        => dbHandle = "closed"

\* C7: a classification that llm.AnalyzeComment returned without error has
\* a score in 1..5 and a sentiment and a topic of the enumerations.
C7_ClassificationInRange ==
    ev.analysis = "ok" =>
        /\ sentiment.Nota \in Notas
        /\ sentiment.Sentimento \in Sentimentos
        /\ sentiment.Tema \in Temas

\* C8: when llm.SuggestAnswer was called for a comment and gave an error or
\* an empty text, the decision screen is not shown, there is no edit, no
\* publish call and no save call for the comment, and the loop is at the
\* end of the iteration with the process running.
C8_UnusableDraftAbandons ==
    (ev.draftCalls > 0 /\ ev.draft \in {"error", "empty"}) =>
        /\ proc = "running"
        /\ pc = "iterEnd"
        /\ ev.ended = "nodraft"
        /\ ~ev.prompted
        /\ ev.choice = "none"
        /\ ev.edited = "none"
        /\ ev.publishCalls = 0
        /\ ev.saveCalls = 0

\* C8 witness: the drafter answered with an empty text and the comment was
\* abandoned
C8_Witness ==
    /\ ev.draftCalls = 1
    /\ ev.draft = "empty"
    /\ ev.ended = "nodraft"

\* C9: for every topic, sentiment and limit, every entry that
\* GetPreviousAnswersByContext returns on the store is built from a row of
\* that topic and sentiment whose user_answered is true, and there are no
\* more entries than such rows; the same holds of the entries the last
\* call returned, which are held in pastAnswers.
C9_PrecedentsOnlyHumanEdited ==
    /\ \A c \in Contexts, limit \in {1, PrecedentLimit} :
          LET res == GetPreviousAnswersByContext(db, c[1], c[2], limit, TRUE).results
              edited == {i \in 1..Len(db) : /\ db[i].user_answered
                                            /\ db[i].theme = c[1]
                                            /\ db[i].sentiment = c[2]}
          IN  /\ Len(res) <= Cardinality(edited)
              /\ \A k \in 1..Len(res) :
                    \E i \in edited : res[k] = ContextEntry(db[i])
    /\ \A k \in 1..Len(pastAnswers) :
          \E i \in 1..Len(db) :
              db[i].user_answered /\ pastAnswers[k] = ContextEntry(db[i])

\* C9 witness: the store holds a row with user_answered false that has a
\* response and a row with user_answered true of the same topic and
\* sentiment, and the last call returned the entry of the second row alone
C9_Witness ==
    \E i, j \in 1..Len(db) :
        /\ ~db[i].user_answered
        /\ db[j].user_answered
        /\ db[i].theme = db[j].theme
        /\ db[i].sentiment = db[j].sentiment
        /\ db[i].response # <<>>
        /\ db[j].response # <<>>
        /\ pastAnswers = <<ContextEntry(db[j])>>

\* C10 as stated: when the loop is about to fetch the page of a non-empty
\* token, the operator has been asked whether to continue.
C10_AlwaysAskedBeforeNextPage ==
    (pc = "fetch" /\ pageToken # 0) => nextBatchAsked

\* C10: when the loop is about to fetch the page of a non-empty token, the
\* operator has been asked whether to continue exactly when the page just
\* handled held no unanswered comment; after a page with an unanswered
\* comment the next page is fetched without asking.
C10_AskedOnlyAfterPageWithoutUnanswered ==
    (pc = "fetch" /\ pageToken # 0) => (nextBatchAsked <=> ~foundUnanswered)

\* C10 witness: the operator was asked and chose to continue to the page of
\* a non-empty token
C10_Witness ==
    /\ pc = "fetch"
    /\ pageToken # 0
    /\ nextBatchAsked
    /\ ~foundUnanswered

\* the ways the operator quits from the loop
QuitExits == {"decisionQuit", "switchQuit", "nextBatchQuit"}

C12_PipelineIffNotAnswered ==
    /\ []((ev.id # 0 /\ replied[ev.id]) => (ev.publishOk /\ ev.publishCalls = 1))
    /\ [][(pc = "item" /\ idx <= Len(items))
             => /\ (pc' = "analyze") <=> ~replied[items[idx]]
                /\ ~replied[items[idx]] => ev'.id = items[idx]
                /\ replied[items[idx]]
                      => (ev' = NoEv /\ idx' = idx + 1 /\ UNCHANGED <<replied, db, foundUnanswered>>)]_vars

\* C12 witness: the second thread is in the pipeline and the first thread,
\* which carries a reply of the channel, is not
C12_Witness ==
    /\ pc = "analyze"
    /\ ev.id = 2
    /\ replied[1]
    /\ ~replied[2]

\* C13: when the comment in hand already has a record in the store that
\* was not written in this iteration, no reply is published for it.
C13_ReprocessingPublishesNothing ==
    (ev.id # 0 /\ ~ev.saveOk /\ \E i \in 1..Len(db) : db[i].id = ev.id)
        => ev.publishCalls = 0

\* C14: no two rows of the store share a comment id, and no call of
\* InitDB, SaveComment, GetLastComments or GetPreviousAnswersByContext
\* removes or changes a row: every row keeps its place and its values, and
\* a call can only add rows after it.
C14_StoreAppendOnly ==
    /\ [](\A i, j \in 1..Len(db) : db[i].id = db[j].id => i = j)
    /\ [][/\ Len(db') >= Len(db)
           /\ \A i \in 1..Len(db) : db'[i] = db[i]]_vars

\* C14 witness: every thread has its row and the last SaveComment call, for
\* an id that is in the table, returned an error
C14_Witness ==
    /\ Len(db) = NumThreads
    /\ ev.saveCalls = 1
    /\ ~ev.saveOk

\* C15: yt.PublishComment is called at most once for the comment in hand;
\* when the call failed, SaveComment is not called and the store holds no
\* row of the comment, the thread stays without a reply, and the loop is
\* at the end of the iteration with the process running.
C15_FailedPublishNotRetried ==
    /\ ev.publishCalls <= 1
    /\ (ev.publishCalls = 1 /\ ~ev.publishOk)
          => /\ ev.saveCalls = 0
             /\ \A i \in 1..Len(db) : db[i].id # ev.id
             /\ ~replied[ev.id]
             /\ ev.ended = "publishFailed"
             /\ pc = "iterEnd"
             /\ proc = "running"

\* C15 witness: the publish of a draft failed
C15_Witness ==
    /\ ev.publishCalls = 1
    /\ ~ev.publishOk
    /\ ev.publishVia = "S"
    /\ pc = "iterEnd"

\* C16: for a comment that was classified, whatever the two lookups
\* returned: the precedents main holds are the result of the precedent
\* lookup or, when it failed, the empty list, and likewise the author
\* history; a comment that is eligible for a draft goes to the drafter; and
\* a comment that is not eligible goes to the decision step.
C16_LookupFailureDegrades ==
    ev.analysis = "ok" =>
        LET rag == GetPreviousAnswersByContext(db, sentiment.Tema, sentiment.Sentimento, PrecedentLimit, TRUE).results
            hist == GetLastComments(db, AuthorDisplayName(ev.id), HistoryLimit, TRUE).comments
        IN  /\ pc \in {"suggest", "decide", "act"}
                  => (pastAnswers \in {<<>>, rag} /\ authorHistory \in {<<>>, hist})
            /\ ShouldSuggestAnswer(manualMode, sentiment)
                  => (pc = "suggest" \/ ev.draftCalls = 1)
            /\ ~ShouldSuggestAnswer(manualMode, sentiment)
                  => (pc = "decide" \/ ev.prompted \/ ev.choice = "error")

\* C16 witness: both lookups failed for a comment whose author and context
\* have records in the store, and the comment is on its way to the drafter
\* with two empty lists
C16_Witness ==
    /\ pc = "suggest"
    /\ ev.analysis = "ok"
    /\ pastAnswers = <<>>
    /\ authorHistory = <<>>
    /\ GetPreviousAnswersByContext(db, sentiment.Tema, sentiment.Sentimento, PrecedentLimit, TRUE).results # <<>>
    /\ GetLastComments(db, AuthorDisplayName(ev.id), HistoryLimit, TRUE).comments # <<>>

\* C17: when the store write fails after a successful publish, the reply
\* stays published and was published once, the process keeps running at
\* the end of the iteration, and the step that follows moves to the next
\* item of the page without touching the replies or the store.
C17_SaveFailureAfterPublishGoesOn ==
    /\ []((ev.publishOk /\ ev.saveCalls = 1 /\ ~ev.saveOk)
             => /\ ev.publishCalls = 1
                /\ replied[ev.id]
                /\ ev.ended = "published"
                /\ proc = "running"
                /\ pc = "iterEnd")
    /\ [][(ev.publishOk /\ ev.saveCalls = 1 /\ ~ev.saveOk)
             => /\ pc' = "item"
                /\ idx' = idx + 1
                /\ proc' = "running"
                /\ UNCHANGED <<replied, db>>]_vars

\* C17 witness: the approved reply of a comment was published and the
\* store write that followed failed
C17_Witness ==
    /\ ev.publishOk
    /\ ev.publishVia = "S"
    /\ ev.saveCalls = 1
    /\ ~ev.saveOk
    /\ replied[ev.id]
    /\ \A i \in 1..Len(db) : db[i].id # ev.id

\* C18: when the preparation screen has stopped without the quit flag and
\* without a setup error (runPreparationScreen returns exit = false and
\* err = nil), the setup result is there; main never reads a missing setup
\* result and is past the preparation only with the result; and after a
\* failed setup nothing is fetched, classified, published or persisted.
C18_LoopOnlyAfterSetup ==
    /\ (pc = "prepared" /\ ~setup.quit /\ ~setup.setupErr) => setup.result
    /\ exitBy # "nilSetup"
    /\ pc \notin {"prep", "prepared", "done"} => (setup.result /\ setup.initOk)
    /\ setup.setupErr => (pc \in {"prep", "prepared", "done"} /\ items = <<>> /\ db = <<>> /\ ev = NoEv)

\* C19: after the listing succeeded, the selected track is an automatically
\* generated track in pt or pt-BR when the list has one; otherwise one in
\* en when the list has one; otherwise some automatically generated track
\* when the list has one; and no track when the list has none.
C19_PrimaryThenSecondaryThenOther ==
    (pc = "captioned" /\ ~(ev.transcript = "failed" /\ captionId = 0)) =>
        LET asr == {i \in 1..Len(captions) : captions[i].TrackKind = "asr"}
            pt == {i \in asr : captions[i].Language \in {"pt", "pt-BR"}}
            en == {i \in asr : captions[i].Language = "en"}
        IN  /\ pt # {} => captionId \in pt
            /\ (pt = {} /\ en # {}) => captionId \in en
            /\ (pt = {} /\ en = {} /\ asr # {}) => captionId \in asr
            /\ asr = {} => (captionId = 0 /\ ev.transcript = "nocaption")
            /\ ev.transcript = "fetched" => captionId \in asr

\* C19 witness: the list is an automatic track in another language
\* followed by an automatic track in en, and the track in en is selected
C19_Witness ==
    /\ pc = "captioned"
    /\ captions = <<[TrackKind |-> "asr", Language |-> "es"], [TrackKind |-> "asr", Language |-> "en"]>>
    /\ captionId = 2
    /\ ev.transcript = "fetched"

\* C20: for every row a successful SaveComment left in the store and every
\* limit that is at least the number of rows of the row's author,
\* GetLastComments for that author returns an entry with the comment text
\* and the reply text of the row.
C20_SaveThenHistoryRoundTrip ==
    \A i \in 1..Len(db) :
        LET n == Cardinality({j \in 1..Len(db) : db[j].author = db[i].author})
        IN  \A limit \in n..(NumThreads + 1) :
                LET got == GetLastComments(db, db[i].author, limit, TRUE)
                IN  /\ ~got.err
                    /\ \E k \in 1..Len(got.comments) :
                          /\ got.comments[k].CommentText = db[i].comment_text
                          /\ got.comments[k].Response = db[i].response

\* C20 witness: two comments of one author were saved, the second with an
\* empty reply text, and the history read afterwards holds both with their
\* texts
C20_Witness ==
    /\ pc = "store"
    /\ ev.saveOk
    /\ Len(db) = 2
    /\ db[1].author = db[2].author
    /\ db[1].response # <<>>
    /\ db[2].response = <<>>
    /\ Len(authorHistory) = 2
    /\ \A i \in 1..2 : \E k \in 1..2 :
          /\ authorHistory[k].CommentText = db[i].comment_text
          /\ authorHistory[k].Response = db[i].response

\* the decision as a function of the sentiment, the score, the two mode
\* flags and whether the draft is usable
DecisionOf(sentimento, nota, manual, auto, draftUsable) ==
    IF ~manual /\ sentimento # "negativo" /\ nota >= 3
    THEN IF ~draftUsable THEN "skip"
         ELSE IF sentimento = "positivo" /\ nota >= 4 /\ auto THEN "auto-publish"
         ELSE "prompt"
    ELSE "prompt"

\* the decision main took for the comment in hand
DecisionTaken ==
    IF ev.ended = "nodraft" THEN "skip"
    ELSE IF input = "S" /\ ~ev.prompted /\ ev.choice = "none" THEN "auto-publish"
    ELSE "prompt"

\* C21: once the decision for a classified comment is taken, it is the
\* value of DecisionOf at the sentiment, the score, the manual flag, the
\* auto flag and the usability of the draft, whatever the transcription
\* mode, the topic, the author history and the precedents are; and an
\* empty selection at the prompt becomes a forced edit exactly when the
\* same inputs gave no draft.
C21_DecisionIsFunctionOfInputs ==
    (ev.analysis = "ok" /\ pc # "suggest") =>
        /\ DecisionTaken = DecisionOf(sentiment.Sentimento, sentiment.Nota, manualMode, autoAnswerMode, ev.draft = "text")
        /\ (ev.prompted /\ ev.choice = "")
              => ((input = "E") <=> ~(~manualMode /\ sentiment.Sentimento # "negativo" /\ sentiment.Nota >= 3))

\* C21 witness: the second comment of an author is approved automatically
\* with the transcription mode set and an author history in hand, after
\* the first one was approved automatically with no history
C21_Witness ==
    /\ pc = "act"
    /\ ev.id = 2
    /\ DecisionTaken = "auto-publish"
    /\ transcriptionMode
    /\ authorHistory # <<>>
    /\ Len(db) = 1
    /\ ~db[1].user_answered

\* C22: the step that ends the handling of an unanswered comment without a
\* published reply writes a log entry, a printed line or a status message
\* (a skip that follows a failure of the decision screen was logged by the
\* step before); so does the step in which the classification fails, in
\* which the transcript cannot be fetched, in which the decision screen
\* fails, and in which the store write fails; whatever the mode flags are.
C22_EveryUnpublishedEndIsAnnounced ==
    /\ (ev.id # 0 /\ pc = "iterEnd" /\ ~ev.publishOk /\ ev.choice # "error") => ev.notice # {}
    /\ ev.ended = "exit" => ev.notice # {}
    /\ (pc = "act" /\ ev.choice = "error") => ev.notice # {}
    /\ (pc \in {"decide", "act"} /\ ev.draftCalls = 1 /\ ev.transcript \in {"failed", "nocaption"} /\ ~ev.prompted) => ev.notice # {}
    /\ (pc = "iterEnd" /\ ev.saveCalls = 1 /\ ~ev.saveOk) => ev.notice # {}

\* C23: InitDB succeeds on every kept table when no statement fails; a
\* successful InitDB on a table without the theme column leaves the table
\* with that column added; no call of InitDB, successful or not, removes a
\* row or changes the value of a field a row had; and InitDB on a table
\* that has the column changes nothing.
C23_MigrationKeepsRows ==
    /\ [](pc = "migrate" => ~InitDB(columns, db, "none").err)
    /\ [][/\ Len(db') = Len(db)
          /\ \A i \in 1..Len(db) : \A c \in DOMAIN db[i] : db'[i][c] = db[i][c]
          /\ (pc = "migrate" /\ pc' = "store")
                => columns' = (IF columns = {} THEN NewColumns ELSE columns \cup {"theme"})
          /\ "theme" \in columns => (db' = db /\ columns' = columns)]_vars

\* C23 witness: a table of two rows without the theme column went through
\* InitDB; it has the column, and both rows are there without a theme
C23_Witness ==
    /\ pc = "store"
    /\ columns = NewColumns
    /\ Len(db) = 2
    /\ \A i \in 1..2 : (db[i].id = i /\ db[i].theme = Null)
    /\ db[1].response # <<>>
    /\ db[2].user_answered

\* C24: when the analysis model answered with a classification document
\* wrapped in a code fence, bare or tagged json, with or without white
\* space or a newline before the opening fence, after the closing fence
\* and around the document, AnalyzeComment returns the classification of
\* the document.
C24_FencedJsonDecodes ==
    (pc = "parsed" /\ raw \in FencedResponses /\ ev.analysis # "transport") =>
        /\ ev.analysis = "ok"
        /\ \E i \in 1..Len(raw) : raw[i] \in DOMAIN JsonDoc /\ sentiment = JsonDoc[raw[i]]

C26_EditWithoutTextPublishesNothing ==
    /\ [](/\ ev.edited \in {"err", "cancel", "empty"}
                => /\ ev.publishCalls = 0
                   /\ ev.saveCalls = 0
                   /\ ~replied[ev.id]
                   /\ \A i \in 1..Len(db) : db[i].id # ev.id
                   /\ ev.ended = "notPublished"
                   /\ pc = "iterEnd"
                   /\ proc = "running"
          /\ ev.publishVia = "E"
                => /\ ev.edited = "text"
                   /\ ev.publishText # <<>>
                   /\ ev.publishText \in {TrimSpace(t) : t \in EditTexts}
                   /\ ev.saveOk => db[Len(db)].response = ev.publishText)
    /\ [][ev.edited \in {"err", "cancel", "empty"}
            => (pc' = "item" /\ idx' = idx + 1 /\ UNCHANGED <<replied, db>>)]_vars

\* C26 witness: the operator chose to edit a comment that had a draft and
\* saved an empty text; nothing was published
C26_Witness ==
    /\ pc = "iterEnd"
    /\ ev.choice = "E"
    /\ suggestedAnswer # <<>>
    /\ ev.edited = "empty"
    /\ ev.publishCalls = 0

\* the contexts and the limits GetPreviousAnswersByContext is asked with
QueryThemes == {JsonDoc[j].Tema : j \in StoreDocs}
QuerySentiments == {JsonDoc[j].Sentimento : j \in StoreDocs}
QueryLimits == 0..(NumThreads + 1)

\* C27: on a table that has the theme column, for every theme, sentiment
\* and limit, GetPreviousAnswersByContext returns at most limit entries;
\* the entries are made, in this order, from distinct rows of the table
\* whose theme and sentiment equal the arguments and whose response is not
\* empty, in descending order of responded_at; and no entry is made from a
\* row whose theme was never written.
C27_PrecedentsMatchContextNewestFirst ==
    "theme" \in columns =>
        \A theme \in QueryThemes, sent \in QuerySentiments, limit \in QueryLimits :
            LET got == GetPreviousAnswersByContext(db, theme, sent, limit, TRUE).results
            IN  /\ Len(got) <= limit
                /\ \E f \in [1..Len(got) -> 1..Len(db)] :
                      /\ \A k \in 1..Len(got) :
                            /\ got[k] = ContextEntry(db[f[k]])
                            /\ db[f[k]].theme = theme
                            /\ db[f[k]].theme # Null
                            /\ db[f[k]].sentiment = sent
                            /\ db[f[k]].response # <<>>
                      /\ \A k, l \in 1..Len(got) :
                            k < l => /\ f[k] # f[l]
                                     /\ db[f[k]].responded_at >= db[f[l]].responded_at

\* C27 witness: two rows of the table match the context asked for, a call
\* with limit 1 returned the entry of the later one, and the table is a
\* migrated one
C27_Witness ==
    /\ pc = "store"
    /\ Len(db) = 2
    /\ db[1].theme = db[2].theme
    /\ db[1].sentiment = db[2].sentiment
    /\ db[1].theme # Null
    /\ \A i \in 1..2 : (db[i].response # <<>> /\ db[i].user_answered)
    /\ pastAnswers = <<ContextEntry(db[2])>>

\* the display names GetLastComments is asked with: those of the threads,
\* one of them in another letter case, and one that no thread has
QueryAuthors == {AuthorDisplayName(t) : t \in Threads} \cup {"ana", "Zed"}

\* C28: for every display name and limit, GetLastComments returns at most
\* limit entries; the entries are made, in this order, from distinct rows
\* whose author equals the display name, in descending order of
\* created_at; and with a limit that covers them, every row with that
\* display name is returned, whichever channel wrote the comment.
C28_HistoryByDisplayNameNewestFirst ==
    \A author \in QueryAuthors, limit \in QueryLimits :
        LET got == GetLastComments(db, author, limit, TRUE).comments
            mine == {i \in 1..Len(db) : db[i].author = author}
        IN  /\ Len(got) <= limit
            /\ Len(got) = (IF Cardinality(mine) < limit THEN Cardinality(mine) ELSE limit)
            /\ \E f \in [1..Len(got) -> mine] :
                  /\ \A k \in 1..Len(got) :
                        /\ got[k].CommentText = db[f[k]].comment_text
                        /\ got[k].Response = db[f[k]].response
                        /\ got[k].CreatedAt = db[f[k]].created_at
                  /\ \A k, l \in 1..Len(got) :
                        k < l => /\ f[k] # f[l]
                                 /\ db[f[k]].created_at >= db[f[l]].created_at

\* C28 witness: the comments of two channels with the same display name
\* were saved, the older one first, and the history read for the name
\* holds both, the newer one first
C28_Witness ==
    /\ pc = "store"
    /\ Len(db) = 2
    /\ db[1].author = db[2].author
    /\ AuthorChannelId(db[1].id) # AuthorChannelId(db[2].id)
    /\ db[1].created_at < db[2].created_at
    /\ Len(authorHistory) = 2
    /\ authorHistory[1].CreatedAt = db[2].created_at
    /\ authorHistory[2].CreatedAt = db[1].created_at

\* C29: once the drafting step of a classified comment is over or was not
\* due, yt.GetVideoTranscription was called for the comment exactly when
\* the transcription flag is set, the comment is eligible for a draft (not
\* manual mode, sentiment not negative, score >= 3) and the topic is not a
\* greeting; and when the call failed or found no automatic track, the
\* drafter was still called, with the empty transcript.
C29_TranscriptOnlyForDraftsOffGreetings ==
    /\ (ev.analysis = "ok" /\ pc # "suggest")
          => ((ev.transcript # "none")
                <=> /\ transcriptionMode
                    /\ ~manualMode /\ sentiment.Sentimento # "negativo" /\ sentiment.Nota >= 3
                    /\ sentiment.Tema # "Saudacao/Agradecimento")
    /\ ev.transcript # "none" => ev.draftCalls = 1
    /\ ev.transcript \in {"failed", "nocaption"}
          => (ev.draftCalls = 1 /\ ev.draft # "none" /\ ev.transcriptArg = <<>>)
    /\ ev.transcriptArg # <<>> => ev.transcript = "fetched"

\* C29 witness: the video lists no automatic track, and the drafter was
\* called and gave a draft that reached the decision step
C29_Witness ==
    /\ pc = "decide"
    /\ transcriptionMode
    /\ ev.transcript = "nocaption"
    /\ ev.transcriptArg = <<>>
    /\ ev.draftCalls = 1
    /\ ev.draft = "text"

\* C30: the text of every yt.PublishComment call is not empty and has no
\* white space at its ends; on the publish path it is the trimmed draft and
\* on the edit path the trimmed text of the editor; and whenever the input
\* is "S" the answer about to be published is already such a text.
C30_PublishedTextNeverEmpty ==
    /\ ev.publishCalls > 0
          => /\ ev.publishText # <<>>
             /\ TrimSpace(ev.publishText) = ev.publishText
             /\ ev.publishVia = "S" => (ev.publishText = TrimSpace(suggestedAnswer) /\ ~manualMode)
             /\ ev.publishVia = "E" => ev.publishText = answer
    /\ (pc = "act" /\ input = "S")
          => (answer # <<>> /\ TrimSpace(answer) = answer /\ suggestedAnswer # <<>>)

\* C30 witness: the operator chose Publicar for a comment with a draft and
\* the publish call was made with the draft
C30_Witness ==
    /\ ev.publishCalls = 1
    /\ ev.publishVia = "S"
    /\ ev.prompted
    /\ ev.choice = "S"
    /\ ev.publishText = <<"Amem!">>

\* the ways main ends before the loop over the pages has started
PrepExits == {"prepQuit", "setupError", "nilSetup", "prepRunError"}

\* C31: once the loop has started, the program ends without a quit of the
\* operator and without a fetch error only after a page with no unanswered
\* comment and an empty next-page token; and after a page with an
\* unanswered comment the next fetch is made without asking the operator,
\* of the first page when the token is empty.
C31_LoopEndsOnlyWhenNothingIsLeft ==
    /\ (proc # "running" /\ exitBy \notin (PrepExits \cup QuitExits \cup {"fetchError"}))
          => /\ exitBy = "noMoreComments"
             /\ ~foundUnanswered
             /\ pageToken = 0
             /\ idx > Len(items)
    /\ (pc = "fetch" /\ foundUnanswered) => ~nextBatchAsked


\* C32: a row is added to the store only by the publish step of the switch,
\* one row at a time and behind the rows already there; the row added has
\* user_answered true exactly when it is added by case "E", with the text
\* the operator left in the edit screen as its response; a row added by
\* case "S", whether the operator chose Publicar or main approved the draft
\* by itself, holds the draft and has user_answered false; and every entry
\* of the precedents handed to the drafter is built from a row whose
\* user_answered is true.
C32_EditedFlagIffEditStep ==
    /\ [][Len(db') # Len(db)
             => /\ Len(db') = Len(db) + 1
                /\ SubSeq(db', 1, Len(db)) = db
                /\ pc = "act"
                /\ input \in {"S", "E"}
                /\ LET r == db'[Len(db')]
                   IN  /\ r.id = ev.id
                       /\ r.user_answered <=> input = "E"
                       /\ input = "E" => /\ ev'.edited = "text"
                                         /\ \E t \in EditTexts : r.response = TrimSpace(t)
                                         /\ r.response = answer'
                       /\ input = "S" => /\ ev'.edited = "none"
                                         /\ r.response = TrimSpace(suggestedAnswer)
                                         /\ r.response = answer]_vars
    /\ [](\A k \in 1..Len(pastAnswers) :
             \E i \in 1..Len(db) :
                 /\ db[i].user_answered
                 /\ db[i].theme = sentiment.Tema
                 /\ db[i].sentiment = sentiment.Sentimento
                 /\ pastAnswers[k] = ContextEntry(db[i]))

\* C32 witness: the store holds the edited reply to the first comment and,
\* after it, the draft the operator approved for the second comment, of the
\* same topic and sentiment; the precedents handed to the drafter for the
\* second comment were the edited reply alone
C32_Witness ==
    /\ Len(db) = 2
    /\ db[1].user_answered
    /\ db[1].response = <<"Gloria">>
    /\ ~db[2].user_answered
    /\ db[2].response = <<"Amem!">>
    /\ db[2].id = ev.id
    /\ db[2].theme = db[1].theme
    /\ db[2].sentiment = db[1].sentiment
    /\ ev.publishVia = "S"
    /\ ev.saveOk
    /\ pastAnswers = <<ContextEntry(db[1])>>


\* C33: a step that adds a row to the store is a step that made a publish
\* call for the comment of the row, with the response of the row as its
\* text, and the call succeeded: the thread had no reply of the channel
\* before the step and has one after it.  So every row of the store is the
\* row of a thread that carries a reply of the channel, and the row of the
\* comment in hand holds the text of the successful publish call made for
\* it.
C33_StoredReplyIsThePublishedText ==
    /\ [][Len(db') # Len(db)
             => LET r == db'[Len(db')]
                IN  /\ r.id = ev.id
                    /\ ev'.id = ev.id
                    /\ ev'.publishCalls = ev.publishCalls + 1
                    /\ ev'.publishOk
                    /\ ev'.publishText = r.response
                    /\ ev'.saveOk
                    /\ ~replied[r.id]
                    /\ replied'[r.id]]_vars
    /\ [](\A i \in 1..Len(db) :
             /\ replied[db[i].id]
             /\ db[i].response # <<>>
             /\ db[i].id = ev.id
                   => /\ ev.publishCalls = 1
                      /\ ev.publishOk
                      /\ ev.publishText = db[i].response)

\* C33 witness: the reply written in the edit screen was published for the
\* second comment and then stored, behind the row of the first comment
C33_Witness ==
    /\ Len(db) = 2
    /\ db[2].id = ev.id
    /\ ev.publishVia = "E"
    /\ ev.publishOk
    /\ ev.publishText = <<"Gloria">>
    /\ db[2].response = <<"Gloria">>
    /\ db[1].response = <<"Amem!">>
    /\ replied[db[1].id]
    /\ replied[db[2].id]


\* C34: a call of stopLoading returns, whatever the goroutine of the
\* loading screen has done by then; and when main is at the place that
\* follows the call (the exit, the next comment, the decision screen or the
\* publish step) the screen of the loading application is gone, its Run has
\* returned and stopLoading has nothing left to call.
C34_StopAlwaysReturns ==
    /\ [](loading.lpc \in {"exit", "next", "decision", "publish"}
             => /\ loading.gpc = "done"
                /\ loading.screen = "nil"
                /\ loading.errChan = <<>>
                /\ loading.onceDone
                /\ loading.closer = "nil")
    /\ (loading.lpc = "stopCall") ~> (loading.lpc \in {"exit", "next", "decision", "publish"})


\* C35: whenever main is about to call llm.SuggestAnswer, and whenever it
\* has called it for the comment in hand, the isANegativeComment argument
\* of the call is false, so the prompt is built with
\* getPositiveAnswerPrompt; and no step calls the drafter for a comment
\* whose sentiment is negative.
C35_DrafterNeverCalledAsNegative ==
    /\ []((pc = "suggest" \/ ev.draftCalls > 0)
             => /\ ~IsANegativeComment(sentiment)
                /\ AnswerPrompt(IsANegativeComment(sentiment)) = "getPositiveAnswerPrompt")
    /\ [][ev'.draftCalls > ev.draftCalls
             => (pc = "suggest" /\ sentiment' = sentiment /\ ~IsANegativeComment(sentiment))]_vars

\* C35 witness: the drafter was called for a neutral comment and for no
\* other reason than the score, and its draft is in hand
C35_Witness ==
    /\ ev.draftCalls = 1
    /\ ev.draft = "text"
    /\ sentiment.Sentimento = "neutro"
    /\ sentiment.Nota = 4
    /\ suggestedAnswer = <<"Amem!">>


\* the sum of the lengths of the lines at the positions keep
RECURSIVE KeptLength(_, _)
KeptLength(lines, keep) ==
    IF keep = {} THEN 0
    ELSE LET i == CHOOSE k \in keep : TRUE
         IN  Len(lines[i]) + KeptLength(lines, keep \ {i})

\* C36: the cleaned text is made of the trimmed lines of the subtitle text
\* that are neither empty, nor made of digits only, nor hold the cue arrow,
\* in their order, with one space between two of them: it is empty exactly
\* when no line is left, it is as long as the lines left and the spaces
\* between them, it starts with the first and ends with the last line left,
\* and it holds every line left; it has no newline, no cue arrow and no
\* space at either end, and it is not a number; and cleaning it again
\* returns it unchanged.
C36_CleanTranscriptKeepsSpokenLines ==
    pc = "cleaned" =>
        LET out == ev.transcriptArg
            lines == SplitLines(srt)
            t == [i \in 1..Len(lines) |-> TrimSpace(lines[i])]
            left == {i \in 1..Len(lines) :
                        /\ t[i] # <<>>
                        /\ \E k \in 1..Len(t[i]) : t[i][k] \notin Digits
                        /\ ~Contains(t[i], CueArrow)}
            first == CHOOSE i \in left : \A j \in left : i <= j
            last == CHOOSE i \in left : \A j \in left : j <= i
        IN  /\ (left = {}) <=> (out = <<>>)
            /\ left # {}
                  => /\ Len(out) = KeptLength(t, left) + Cardinality(left) - 1
                     /\ SubSeq(out, 1, Len(t[first])) = t[first]
                     /\ SubSeq(out, Len(out) - Len(t[last]) + 1, Len(out)) = t[last]
                     /\ \A i \in left : Contains(out, t[i])
                     /\ \A i \in left : i # last => Contains(out, t[i] \o <<" ">>)
            /\ \A k \in 1..Len(out) : out[k] # "\n"
            /\ ~Contains(out, CueArrow)
            /\ TrimSpace(out) = out
            /\ \A k \in 1..Len(out) : out[k] \in SrtChars
            /\ out # <<>> => \E k \in 1..Len(out) : out[k] \notin Digits
            /\ CleanTranscript(out) = out

\* C36 witness: a text of three lines whose second line is a number that was
\* spoken; the number is dropped and the two other lines are joined by one
\* space
C36_Witness ==
    /\ pc = "cleaned"
    /\ srt = <<"a", "\n", "7", "\n", "a">>
    /\ ev.transcriptArg = <<"a", " ", "a">>
====
